---- MODULE Spec2Model ----
(***************************************************************************)
(* OCRA (oath/_ocra.py) with the HOTP truncation it reuses (oath/_hotp.py)  *)
(* and the digest comparison of oath/_utils.py, as run by Python 3.         *)
(*                                                                         *)
(* Text (str) is a sequence of one-character strings, binary data (bytes)  *)
(* a sequence of integers 0..255.  A call that may raise yields a record   *)
(* [ok, exc, v]: ok = TRUE with the value v, or ok = FALSE with the name   *)
(* of the exception in exc.                                                *)
(***************************************************************************)
EXTENDS Integers, Sequences, FiniteSets, TLC

\* ------------------------------------------------------------------ bounds
\* The challenge length of the suites of the exchanges (Qxnn admits 04..64).
ChallengeLength == 4

\* ------------------------------------------------------------ Python basics
Min(a, b) == IF a < b THEN a ELSE b
Max(a, b) == IF a > b THEN a ELSE b

OkS(v)  == [ok |-> TRUE,  exc |-> "", v |-> v]
ErrS(e) == [ok |-> FALSE, exc |-> e,  v |-> <<>>]
OkN(n)  == [ok |-> TRUE,  exc |-> "", v |-> n]
ErrN(e) == [ok |-> FALSE, exc |-> e,  v |-> 0]
OkB(b)  == [ok |-> TRUE,  exc |-> "", v |-> b]
ErrB(e) == [ok |-> FALSE, exc |-> e,  v |-> FALSE]

\* s[a:b] of Python: 0-based, half-open, clamped to the sequence.
Slice(s, a, b) ==
    LET lo == Min(Max(a, 0), Len(s))
        hi == Min(Max(b, 0), Len(s))
    IN  IF lo >= hi THEN <<>> ELSE SubSeq(s, lo + 1, hi)

Drop(s, n) == Slice(s, n, Len(s))

\* c * n of Python for a one-element sequence c.
Repeat(c, n) == [i \in 1..Max(n, 0) |-> c]

DigitChars == <<"0","1","2","3","4","5","6","7","8","9">>
HexChars   == <<"0","1","2","3","4","5","6","7","8","9","a","b","c","d","e","f">>
UpperChars == <<"A","B","C","D","E","F","G","H","I","J","K","L","M",
                "N","O","P","Q","R","S","T","U","V","W","X","Y","Z">>
LowerChars == <<"a","b","c","d","e","f","g","h","i","j","k","l","m",
                "n","o","p","q","r","s","t","u","v","w","x","y","z">>
OtherChars == <<" ","!","#","<<",">>%","&","'","(",")","*","+",",","-",".","/",
                ":",";","<","=",">","?","@","[","]","^","_","{","|","}","~">>
OtherCodes == <<32,33,35,36,37,38,39,40,41,42,43,44,45,46,47,
                58,59,60,61,62,63,64,91,93,94,95,123,124,125,126>>

DigitSet == {DigitChars[i] : i \in 1..10}
UpperSet == {UpperChars[i] : i \in 1..26}
LowerSet == {LowerChars[i] : i \in 1..26}
HexSet   == DigitSet \cup {"a","b","c","d","e","f","A","B","C","D","E","F"}
\* A letter outside ASCII (U+00E9), which str.isalnum() admits as any letter.
LetterSet == {"é"}
AlnumSet == DigitSet \cup UpperSet \cup LowerSet \cup LetterSet

\* ord(c) for the ASCII characters of the model.
OrdTable ==
    [c \in DigitSet \cup UpperSet \cup LowerSet \cup {OtherChars[i] : i \in 1..Len(OtherChars)} |->
        IF c \in DigitSet THEN 47 + (CHOOSE i \in 1..10 : DigitChars[i] = c)
        ELSE IF c \in UpperSet THEN 64 + (CHOOSE i \in 1..26 : UpperChars[i] = c)
        ELSE IF c \in LowerSet THEN 96 + (CHOOSE i \in 1..26 : LowerChars[i] = c)
        ELSE OtherCodes[CHOOSE i \in 1..Len(OtherChars) : OtherChars[i] = c]]
Ord(c) == OrdTable[c]

\* str.lower() on one character.
LowerChar(c) ==
    IF c \in UpperSet THEN LowerChars[CHOOSE i \in 1..26 : UpperChars[i] = c] ELSE c
lower(s) == [i \in 1..Len(s) |-> LowerChar(s[i])]

DigitVal(c) == (CHOOSE i \in 1..10 : DigitChars[i] = c) - 1
HexVal(c)   == (CHOOSE i \in 1..16 : HexChars[i] = LowerChar(c)) - 1

\* str.isdigit(), str.isalnum(): every character of the kind, and at least one.
isdigit(s) == Len(s) > 0 /\ \A i \in 1..Len(s) : s[i] \in DigitSet
isalnum(s) == Len(s) > 0 /\ \A i \in 1..Len(s) : s[i] \in AlnumSet
IsHexDigits(s) == Len(s) > 0 /\ \A i \in 1..Len(s) : s[i] \in HexSet

\* str(n) for n >= 0.
RECURSIVE IntToStr(_)
IntToStr(n) == IF n < 10 THEN <<DigitChars[n + 1]>>
               ELSE Append(IntToStr(n \div 10), DigitChars[(n % 10) + 1])

RECURSIVE DigitsValue(_, _, _)
DigitsValue(s, i, acc) ==
    IF i > Len(s) THEN acc ELSE DigitsValue(s, i + 1, acc * 10 + DigitVal(s[i]))

\* int(s) for a str: an optional sign, then decimal digits.  ValueError otherwise.
StripSign(s) == IF Len(s) > 0 /\ s[1] \in {"+", "-"} THEN Drop(s, 1) ELSE s
SignedValue(s, body) ==
    IF ~isdigit(body) THEN ErrN("ValueError")
    ELSE IF s[1] = "-" THEN OkN(0 - DigitsValue(body, 1, 0))
    ELSE OkN(DigitsValue(body, 1, 0))
PyInt(s) == SignedValue(s, StripSign(s))

\* int(s, 16) succeeds: an optional sign, an optional 0x prefix, then hex digits.
StripHexPrefix(s) ==
    IF Len(s) >= 2 /\ s[1] = "0" /\ s[2] \in {"x", "X"} THEN Drop(s, 2) ELSE s
PyIntBase16Ok(s) == IsHexDigits(StripHexPrefix(StripSign(s)))

\* str.split(sep) for a one-character separator.
FirstIndex(s, sep) == CHOOSE i \in 1..Len(s) : s[i] = sep /\ \A j \in 1..(i - 1) : s[j] # sep
RECURSIVE split(_, _)
SplitAt(s, sep, k) == <<Slice(s, 0, k - 1)>> \o split(Drop(s, k), sep)
split(s, sep) ==
    IF \A i \in 1..Len(s) : s[i] # sep THEN <<s>>
    ELSE SplitAt(s, sep, FirstIndex(s, sep))

\* sep.join(parts)
RECURSIVE join(_, _)
join(sep, parts) ==
    IF Len(parts) = 0 THEN <<>>
    ELSE IF Len(parts) = 1 THEN parts[1]
    ELSE parts[1] \o sep \o join(sep, Tail(parts))

\* s.encode('ascii') on the ASCII characters of the model.
Encode(s) == [i \in 1..Len(s) |-> Ord(s[i])]

\* c.encode('utf8'): one byte for an ASCII character, two for U+00E9.
Utf8(c) == IF c \in LetterSet THEN <<195, 169>> ELSE <<Ord(c)>>


\* ------------------------------------------------------------ Python values
\* A value a caller passes where the code inspects its type: t is the type,
\* s the characters of a str (or of the literal of a bytes or an int).
PyStr(s)   == [t |-> "str",   s |-> s]
PyBytes(s) == [t |-> "bytes", s |-> s]
PyNone     == [t |-> "none",  s |-> <<>>]

\* str(v)
str(v) == IF v.t = "bytes" THEN <<"b","'">> \o v.s \o <<"'">>
          ELSE IF v.t = "none" THEN <<"N","o","n","e">>
          ELSE v.s

\* An integer argument: its sign and its magnitude as 9 big-endian bytes, so
\* that 2^64 and its neighbours are values of the model.
NoneInt == [t |-> "none", neg |-> FALSE, mag |-> <<0,0,0,0,0,0,0,0,0>>]
NatInt(n) ==
    [t |-> "int", neg |-> FALSE,
     mag |-> <<0, 0, 0, 0, 0, (n \div 16777216) % 256, (n \div 65536) % 256,
               (n \div 256) % 256, n % 256>>]
NegInt(n) == [NatInt(n) EXCEPT !.neg = TRUE]
\* A str that int() rejects, given where an integer is expected.
NotAnInt == [t |-> "str", neg |-> FALSE, mag |-> <<0,0,0,0,0,0,0,0,0>>]
\* 2^64 + d and 2^64 - 1
Pow64Plus(d) == [t |-> "int", neg |-> FALSE, mag |-> <<1, 0, 0, 0, 0, 0, 0, 0, d>>]
Pow64Minus1  == [t |-> "int", neg |-> FALSE,
                 mag |-> <<0, 255, 255, 255, 255, 255, 255, 255, 255>>]
IsZeroInt(i) == \A k \in 1..9 : i.mag[k] = 0
IsNegative(i) == i.neg /\ ~IsZeroInt(i)

\* ------------------------------------------------------------ oath/_utils.py
\* bytes.fromhex(s): pairs of hexadecimal digits, ValueError otherwise.
fromhex(s) ==
    IF Len(s) % 2 = 0 /\ \A i \in 1..Len(s) : s[i] \in HexSet
    THEN OkS([i \in 1..(Len(s) \div 2) |-> 16 * HexVal(s[2 * i - 1]) + HexVal(s[2 * i])])
    ELSE ErrS("ValueError")

\* tobytes(b_or_s) for a str: b_or_s.encode('utf8'), the encoding of each
\* character in turn (of each half of the str, so that a long str needs no
\* deep recursion).
RECURSIVE tobytes(_)
tobytes(s) ==
    IF Len(s) = 0 THEN <<>>
    ELSE IF Len(s) = 1 THEN Utf8(s[1])
    ELSE tobytes(SubSeq(s, 1, Len(s) \div 2)) \o tobytes(SubSeq(s, (Len(s) \div 2) + 1, Len(s)))

\* A compare_digest that does not compare the lengths (a variant the
\* properties must tell from compare_digest).
compare_digest_nolen(a, b) ==
    IF a.t # b.t THEN ErrB("TypeError")
    ELSE IF a.t \notin {"bytes", "str"} THEN ErrB("TypeError")
    ELSE OkB(\A i \in 1..Min(Len(a.s), Len(b.s)) : a.s[i] = b.s[i])

\* compare_digest(a, b): TypeError unless both are bytes or both are str,
\* False when the lengths differ, else whether all characters agree.
compare_digest(a, b) ==
    IF a.t # b.t THEN ErrB("TypeError")
    ELSE IF a.t \notin {"bytes", "str"} THEN ErrB("TypeError")
    ELSE IF Len(a.s) # Len(b.s) THEN OkB(FALSE)
    ELSE OkB(\A i \in 1..Min(Len(a.s), Len(b.s)) : a.s[i] = b.s[i])

\* ------------------------------------------------------------- oath/_hotp.py
\* struct.unpack('>I', chunk) and value & 0x7FFFFFFF: four bytes, big-endian,
\* bit 31 cleared; struct.error when the slice is shorter.
Unpack31(chunk) ==
    IF Len(chunk) # 4 THEN ErrN("struct.error")
    ELSE OkN((chunk[1] % 128) * 16777216 + chunk[2] * 65536 + chunk[3] * 256 + chunk[4])

\* A truncation that takes the offset from the high four bits of the last byte.
truncated_value_high(h) ==
    IF Len(h) = 0 THEN ErrN("IndexError")
    ELSE Unpack31(Slice(h, h[Len(h)] \div 16, (h[Len(h)] \div 16) + 4))

\* offset = h[-1] & 0xF; h[offset : offset + 4]
truncated_value(h) ==
    IF Len(h) = 0 THEN ErrN("IndexError")
    ELSE Unpack31(Slice(h, h[Len(h)] % 16, (h[Len(h)] % 16) + 4))

\* A zfill that does not pad.
zfill_nopad(digits, p) == digits

\* digits.zfill(p)
zfill(digits, p) == Repeat("0", p - Len(digits)) \o digits

\* digits[-p:]
LastDigits(digits, p) == Slice(digits, IF p = 0 THEN 0 ELSE Len(digits) - p, Len(digits))

\* str(tv) for the result tv of truncated_value
StrOf(tv) == IF tv.ok THEN OkS(IntToStr(tv.v)) ELSE ErrS(tv.exc)

\* digits[-p:].zfill(p) for digits = str(truncated_value(h))
DecOf(digits, p) == IF digits.ok THEN OkS(zfill(LastDigits(digits.v, p), p)) ELSE digits

dec(h, p) == DecOf(StrOf(truncated_value(h)), p)

\* struct.pack('>Q', int(i))
int2beint64(i) ==
    IF IsNegative(i) \/ i.mag[1] # 0 THEN ErrS("struct.error")
    ELSE OkS(Drop(i.mag, 1))

\* ------------------------------------------------------------- oath/_ocra.py
\* is_int(v): int(v) succeeds; a str that is no number gives False (ValueError
\* is caught), None raises TypeError, which is_int does not catch.
is_int(v) == IF v.t = "none" THEN ErrB("TypeError") ELSE OkB(v.t = "int")

\* hashlib: the digest constructors the model knows, by attribute name.
HashlibNames == {<<"m","d","5">>, <<"s","h","a","1">>, <<"s","h","a","2","5","6">>, <<"s","h","a","5","1","2">>}
digest_size(algo) ==
    IF algo = <<"m","d","5">> THEN 16
    ELSE IF algo = <<"s","h","a","1">> THEN 20
    ELSE IF algo = <<"s","h","a","2","5","6">> THEN 32
    ELSE 64

\* The digest functions are deterministic functions of their inputs and the
\* algorithm; the model computes a digest of the algorithm's size from a
\* checksum that folds in the input bytes one by one (sixteen per recursion
\* step, each step's sum being computed before the next one starts, so that
\* long inputs need no deep recursion).
HashModulus == 32749
Mix(acc, s, i) == IF i > Len(s) THEN acc ELSE (acc * 131 + s[i] + 1) % HashModulus
Mix4(acc, s, i) == Mix(Mix(Mix(Mix(acc, s, i), s, i + 1), s, i + 2), s, i + 3)
Mix16(acc, s, i) == Mix4(Mix4(Mix4(Mix4(acc, s, i), s, i + 4), s, i + 8), s, i + 12)
RECURSIVE AbsorbFrom(_, _, _)
AbsorbFrom(s, i, acc) ==
    IF i > Len(s) THEN acc
    ELSE LET a == Mix16(acc, s, i) IN IF a >= 0 THEN AbsorbFrom(s, i + 16, a) ELSE 0
Absorb(s, acc) == AbsorbFrom(s, 1, acc)
Squeeze(acc, algo) ==
    [i \in 1..digest_size(algo) |-> ((acc + i) * (2 * i + 1) + (acc \div 256)) % 256]

\* algo(data).digest()
hash_digest(algo, data) == Squeeze(Absorb(data, Len(algo)), algo)

\* hmac.new(key, data_input, hash_algo).digest()
hmac_digest(key, data_input, algo) ==
    Squeeze(Absorb(data_input, Absorb(key, digest_size(algo) + Len(key))), algo)

CryptoFunction(hash_algo, truncation_length) ==
    [hash_algo |-> hash_algo, truncation_length |-> truncation_length]

\* The truncation CryptoFunction.__call__ applies to the digest h.
CryptoFunction_truncate(cf, h) ==
    IF cf.truncation_length # 0 THEN dec(h, cf.truncation_length)
    ELSE StrOf(truncated_value(h))

CryptoFunction_call(cf, key, data_input) ==
    CryptoFunction_truncate(cf, hmac_digest(key, data_input, cf.hash_algo))

\* 'HOTP-%s-%s' % (hash_algo.__name__, truncation_length); the __name__ of the
\* hashlib constructor of sha1 is openssl_sha1.
CryptoFunction_str(cf) ==
    <<"H","O","T","P","-","o","p","e","n","s","s","l","_">> \o cf.hash_algo \o <<"-">> \o IntToStr(cf.truncation_length)

str2hashalgo(description) ==
    IF lower(description) \in HashlibNames THEN OkS(lower(description))
    ELSE ErrS("ValueError")

CFErr == [ok |-> FALSE, exc |-> "ValueError", v |-> CryptoFunction(<<>>, 0)]

\* The fields s of the description, once split.
CryptoFunctionOf(algo, truncation_length) ==
    IF ~algo.ok THEN CFErr
    ELSE IF ~truncation_length.ok \/ truncation_length.v < 0 \/ truncation_length.v > 10
    THEN CFErr
    ELSE [ok |-> TRUE, exc |-> "", v |-> CryptoFunction(algo.v, truncation_length.v)]

ParseCryptoFunction(s) ==
    IF Len(s) # 3 THEN CFErr
    ELSE IF s[1] # <<"H","O","T","P">> THEN CFErr
    ELSE CryptoFunctionOf(str2hashalgo(s[2]), PyInt(s[3]))

str2cryptofunction(crypto_function_description) ==
    ParseCryptoFunction(split(crypto_function_description, "-"))


\* ----------------------------------------------------------------- DataInput
\* A DataInput holds what str2datainput stored for each letter, or None:
\*   C: 1                         None: -1
\*   Q: [kind, len]               None: NoQ
\*   P: the digest constructor    None: <<>>
\*   S: the session length        None: -1
\*   T: the time step in seconds  None: -1
NoQ == [kind |-> "", len |-> 0]
EmptyDataInput == [C |-> -1, Q |-> NoQ, P |-> <<>>, S |-> -1, T |-> -1]

\* PERIODS
PERIODS(unit) == IF unit = "H" THEN 3600 ELSE IF unit = "M" THEN 60 ELSE 1

\* The T complement: re.match(r'^(\d+[HMS])+$') and the sum of quantity * period
\* over re.findall(r'\d+[HMS]'); ValueError when it does not match.
RECURSIVE ParseDuration(_, _, _, _, _)
ParseDuration(s, i, quantity, have, length) ==
    IF i > Len(s) THEN (IF have \/ Len(s) = 0 THEN ErrN("ValueError") ELSE OkN(length))
    ELSE IF s[i] \in DigitSet
         THEN ParseDuration(s, i + 1, quantity * 10 + DigitVal(s[i]), TRUE, length)
    ELSE IF s[i] \in {"H", "M", "S"} /\ have
         THEN ParseDuration(s, i + 1, 0, FALSE, length + quantity * PERIODS(s[i]))
    ELSE ErrN("ValueError")

DIErr(e) == [ok |-> FALSE, exc |-> e, v |-> EmptyDataInput]
Stored(datainputs) == [ok |-> TRUE, exc |-> "", v |-> datainputs]

\* if letter in datainputs
AlreadyPresent(letter, datainputs) ==
    \/ letter = "C" /\ datainputs.C # -1
    \/ letter = "Q" /\ datainputs.Q # NoQ
    \/ letter = "P" /\ datainputs.P # <<>>
    \/ letter = "S" /\ datainputs.S # -1
    \/ letter = "T" /\ datainputs.T # -1

\* Q with a kind and a length: length is int(element[2:]).
StoreQ(second_letter, length, datainputs) ==
    IF second_letter \notin {"A", "N", "H"} THEN DIErr("ValueError")
    ELSE IF ~length.ok \/ length.v < 4 \/ length.v > 64 THEN DIErr("ValueError")
    ELSE Stored([datainputs EXCEPT !.Q = [kind |-> second_letter, len |-> length.v]])

ParseQ(element, datainputs) ==
    IF Len(element) = 1 THEN Stored([datainputs EXCEPT !.Q = [kind |-> "N", len |-> 8]])
    ELSE StoreQ(element[2], PyInt(Drop(element, 2)), datainputs)

\* algo is str2hashalgo(element[1:] or 'SHA1')
StoreP(algo, datainputs) ==
    IF ~algo.ok THEN DIErr("ValueError") ELSE Stored([datainputs EXCEPT !.P = algo.v])

\* length is 64, or int(element[1:])
StoreS(length, datainputs) ==
    IF ~length.ok THEN DIErr("ValueError") ELSE Stored([datainputs EXCEPT !.S = length.v])

\* length is the duration of element[1:] or '1M'
StoreT(length, datainputs) ==
    IF ~length.ok THEN DIErr("ValueError") ELSE Stored([datainputs EXCEPT !.T = length.v])

OrDefault(rest, default) == IF Len(rest) > 0 THEN rest ELSE default

\* The body of the loop of str2datainput for one element, datainputs being what
\* the elements before it stored.
ParseElement(element, datainputs) ==
    IF Len(element) = 0 THEN DIErr("IndexError")
    ELSE IF AlreadyPresent(element[1], datainputs) THEN DIErr("ValueError")
    ELSE IF element[1] = "C" THEN Stored([datainputs EXCEPT !.C = 1])
    ELSE IF element[1] = "Q" THEN ParseQ(element, datainputs)
    ELSE IF element[1] = "P"
         THEN StoreP(str2hashalgo(OrDefault(Drop(element, 1), <<"S","H","A","1">>)), datainputs)
    ELSE IF element[1] = "S"
         THEN StoreS(IF Len(element) > 1 THEN PyInt(Drop(element, 1)) ELSE OkN(64), datainputs)
    ELSE IF element[1] = "T"
         THEN StoreT(ParseDuration(OrDefault(Drop(element, 1), <<"1","M">>), 1, 0, FALSE, 0),
                     datainputs)
    ELSE DIErr("ValueError")

RECURSIVE ParseElements(_, _, _)
NextElement(elements, i, r) == IF ~r.ok THEN r ELSE ParseElements(elements, i + 1, r.v)
ParseElements(elements, i, datainputs) ==
    IF i > Len(elements) THEN Stored(datainputs)
    ELSE NextElement(elements, i, ParseElement(elements[i], datainputs))

str2datainput(datainput_description) ==
    ParseElements(split(datainput_description, "-"), 1, EmptyDataInput)

\* ----------------------------------------------------- DataInput.__call__
\* The keyword arguments of a call; a parameter not given is None.
NoParams ==
    [C |-> NoneInt, Q |-> PyNone, P |-> PyNone, P_digest |-> PyNone, S |-> PyNone,
     T |-> NoneInt, T_precomputed |-> NoneInt, Qsc |-> PyNone]

\* '%x' % int(Q) for a str of decimal digits of any length: the number is
\* held in limbs of 16 bits, the least significant first; the digits are
\* taken in four at a time, and the limbs are written out in hexadecimal
\* without the leading zeros.
RECURSIVE MulAdd(_, _, _, _)
MulAdd(limbs, i, m, c) ==
    IF i > Len(limbs) THEN limbs
    ELSE MulAdd([limbs EXCEPT ![i] = (limbs[i] * m + c) % 65536], i + 1, m,
                (limbs[i] * m + c) \div 65536)
RECURSIVE Horner(_, _, _)
Horner(ds, i, limbs) ==
    IF i > Len(ds) \/ limbs[1] < 0 THEN limbs
    ELSE IF i + 3 <= Len(ds)
    THEN Horner(ds, i + 4,
                MulAdd(limbs, 1, 10000,
                       ds[i] * 1000 + ds[i + 1] * 100 + ds[i + 2] * 10 + ds[i + 3]))
    ELSE Horner(ds, i + 1, MulAdd(limbs, 1, 10, ds[i]))
LimbDigit(limbs, k) ==
    (limbs[Len(limbs) - ((k - 1) \div 4)] \div (IF (k - 1) % 4 = 0 THEN 4096 ELSE IF (k - 1) % 4 = 1 THEN 256 ELSE IF (k - 1) % 4 = 2 THEN 16 ELSE 1)) % 16
StripZeros(h) ==
    IF \A k \in 1..Len(h) : h[k] = "0" THEN <<"0">>
    ELSE SubSeq(h, CHOOSE k \in 1..Len(h) : h[k] # "0" /\ \A j \in 1..(k - 1) : h[j] = "0", Len(h))
ToHexDigits(limbs) == StripZeros([k \in 1..(4 * Len(limbs)) |-> HexChars[LimbDigit(limbs, k) + 1]])
FormatHex(s) ==
    ToHexDigits(Horner([i \in 1..Len(s) |-> DigitVal(s[i])], 1,
                       [i \in 1..((Len(s) \div 4) + 1) |-> 0]))

\* 2^64 < i
Above2Pow64(i) == i.mag[1] > 1 \/ (i.mag[1] = 1 /\ \E k \in 2..9 : i.mag[k] # 0)

\* The value of an integer argument below 2^31.
MagToNat(i) == i.mag[6] * 16777216 + i.mag[7] * 65536 + i.mag[8] * 256 + i.mag[9]

\* int(T / step): the quotient, rounded towards zero.
DivInt(i, step) == [NatInt(MagToNat(i) \div step) EXCEPT !.neg = i.neg]

EncodeC(di, p) ==
    IF di.C \in {-1, 0} THEN OkS(<<>>)
    ELSE IF p.C.t # "int" \/ IsNegative(p.C) \/ Above2Pow64(p.C) THEN ErrS("ValueError")
    ELSE int2beint64(p.C)

\* tobytes(Q) followed by '\0' * (128 - len(Q)): Q is the bytes fromhex gave
\* (kinds N and H), or the str itself (kind A), whose len counts characters.
ZeroPad(data, length) == data \o Repeat(0, 128 - length)
PadBytes(b) == IF b.ok THEN OkS(ZeroPad(b.v, Len(b.v))) ELSE b

\* Q += '0' * (len(Q) % 2)
EvenHex(hex) == hex \o Repeat("0", Len(hex) % 2)

\* The checks and the encoding of the challenge Q of the given kind.
EncodeChallenge(kind, Q, max_length) ==
    IF Q.t # "str" \/ Len(Q.s) > max_length THEN ErrS("ValueError")
    ELSE IF kind = "N" /\ ~isdigit(Q.s) THEN ErrS("ValueError")
    ELSE IF kind = "A" /\ ~isalnum(Q.s) THEN ErrS("ValueError")
    ELSE IF kind = "H" /\ ~PyIntBase16Ok(Q.s) THEN ErrS("ValueError")
    ELSE IF kind = "N" THEN PadBytes(fromhex(EvenHex(FormatHex(Q.s))))
    ELSE IF kind = "A" THEN OkS(ZeroPad(tobytes(Q.s), Len(Q.s)))
    ELSE PadBytes(fromhex(Q.s))

\* With Qsc given (mutual challenge-response) Q = Qsc and max_length *= 2.
EncodeQ(di, p) ==
    IF di.Q = NoQ THEN OkS(<<>>)
    ELSE IF p.Qsc.t # "none" THEN EncodeChallenge(di.Q.kind, p.Qsc, di.Q.len * 2)
    ELSE EncodeChallenge(di.Q.kind, p.Q, di.Q.len)

\* self.P is a hashlib constructor, which has no digest_size attribute: a
\* P_digest that is given and not empty ends in AttributeError.
EncodeP(di, p) ==
    IF di.P = <<>> THEN OkS(<<>>)
    ELSE IF p.P_digest.t # "none" /\ Len(p.P_digest.s) > 0 THEN ErrS("AttributeError")
    ELSE IF p.P.t = "none" THEN ErrS("ValueError")
    ELSE OkS(hash_digest(di.P, tobytes(p.P.s)))

EncodeS(di, p) ==
    IF di.S \in {-1, 0} THEN OkS(<<>>)
    ELSE IF p.S.t = "none" \/ Len(p.S.s) # di.S THEN ErrS("ValueError")
    ELSE OkS(tobytes(p.S.s))

\* pre is is_int(T_precomputed) and raw is is_int(T), evaluated when reached.
TimeStep(pre, raw, p, step) ==
    IF ~pre.ok THEN ErrS(pre.exc)
    ELSE IF pre.v THEN int2beint64(p.T_precomputed)
    ELSE IF ~raw.ok THEN ErrS(raw.exc)
    ELSE IF raw.v THEN int2beint64(DivInt(p.T, step))
    ELSE ErrS("ValueError")

EncodeT(di, p) ==
    IF di.T \in {-1, 0} THEN OkS(<<>>)
    ELSE TimeStep(is_int(p.T_precomputed), is_int(p.T), p, di.T)

\* datainput += ...: the first field that raises ends the call.
Then(r1, r2) == IF ~r1.ok THEN r1 ELSE IF ~r2.ok THEN r2 ELSE OkS(r1.v \o r2.v)

DataInput_call(di, p) ==
    Then(Then(Then(Then(EncodeC(di, p), EncodeQ(di, p)), EncodeP(di, p)),
              EncodeS(di, p)), EncodeT(di, p))

\* DataInput.__str__: DataInput.__class__.__name__ is 'type'.
ShownValues(di) ==
    (IF di.C # -1 THEN <<<<"C","=">> \o IntToStr(di.C)>> ELSE <<>>)
    \o (IF di.Q # NoQ
        THEN <<<<"Q","=","(","'">> \o <<di.Q.kind>> \o <<"'",","," ">> \o IntToStr(di.Q.len) \o <<")">>>>
        ELSE <<>>)
    \o (IF di.P # <<>>
        THEN <<<<"P","=","<","b","u","i","l","t","-","i","n"," ","f","u","n","c","t","i","o","n"," ","o","p","e","n","s","s","l","_">> \o di.P \o <<">">>>> ELSE <<>>)
    \o (IF di.S # -1 THEN <<<<"S","=">> \o IntToStr(di.S)>> ELSE <<>>)
    \o (IF di.T # -1 THEN <<<<"T","=">> \o IntToStr(di.T)>> ELSE <<>>)
DataInput_str(di) == <<"<","t","y","p","e"," ">> \o join(<<","," ">>, ShownValues(di)) \o <<">">>

\* ----------------------------------------------------------------- OcraSuite
OcraSuite(ocrasuite_description, crypto_function, data_input) ==
    [ocrasuite_description |-> ocrasuite_description,
     crypto_function |-> crypto_function, data_input |-> data_input]

NoSuite == OcraSuite(<<>>, CryptoFunction(<<>>, 0), EmptyDataInput)
SuiteErr(e) == [ok |-> FALSE, exc |-> e, v |-> NoSuite]

\* self.crypto_function(key, description + b'\0' + data_input), data_input
\* being the result of self.data_input(**kwargs).
OtpOf(suite, key, data_input) ==
    IF ~data_input.ok THEN data_input
    ELSE CryptoFunction_call(suite.crypto_function, key,
                             Encode(suite.ocrasuite_description) \o <<0>> \o data_input.v)

OcraSuite_call(suite, key, p) == OtpOf(suite, key, DataInput_call(suite.data_input, p))

\* compare_digest(str(response), otp), otp being the result of self(key, **kwargs)
AcceptOf(response, otp) ==
    IF ~otp.ok THEN ErrB(otp.exc) ELSE compare_digest(PyStr(str(response)), PyStr(otp.v))

\* An accept that computes the OTP without the keyword arguments.
OcraSuite_accept_nokwargs(suite, response, key, p) ==
    AcceptOf(response, OcraSuite_call(suite, key, NoParams))

OcraSuite_accept(suite, response, key, p) == AcceptOf(response, OcraSuite_call(suite, key, p))

OcraSuite_str(suite) ==
    <<"<","O","c","r","a","S","u","i","t","e"," ","c","r","y","p","t","o","_","f","u","n","c","t","i","o","n",":">> \o CryptoFunction_str(suite.crypto_function)
    \o <<" ","d","a","t","a","_","i","n","p","u","t",":">> \o DataInput_str(suite.data_input) \o <<">">>

OCRA_1 == <<"O","C","R","A","-","1">>

\* OcraSuite(description, crypto_function, data_input) once both are parsed
SuiteOf(ocrasuite_description, crypto_function, data_input) ==
    IF ~crypto_function.ok THEN SuiteErr(crypto_function.exc)
    ELSE IF ~data_input.ok THEN SuiteErr(data_input.exc)
    ELSE [ok |-> TRUE, exc |-> "",
          v |-> OcraSuite(ocrasuite_description, crypto_function.v, data_input.v)]

ParseSuite(ocrasuite_description, elements) ==
    IF Len(elements) # 3 THEN SuiteErr("ValueError")
    ELSE IF elements[1] # OCRA_1 THEN SuiteErr("ValueError")
    ELSE SuiteOf(ocrasuite_description, str2cryptofunction(elements[2]),
                 str2datainput(elements[3]))

str2ocrasuite(ocrasuite_description) ==
    ParseSuite(ocrasuite_description, split(ocrasuite_description, ":"))


\* ------------------------------------------------------ challenge-response
\* What a call gives back to its caller: kind is "return" or "raise"; t is the
\* type of the returned value ("str", "bool", "tuple" for (rs, server_challenge),
\* "StateException" for a returned exception object) or the raised exception;
\* s, s2 and b hold the value.
RetStr(s)       == [kind |-> "return", t |-> "str",   s |-> s, s2 |-> <<>>, b |-> FALSE]
RetBool(b)      == [kind |-> "return", t |-> "bool",  s |-> <<>>, s2 |-> <<>>, b |-> b]
RetTuple(s, s2) == [kind |-> "return", t |-> "tuple", s |-> s, s2 |-> s2, b |-> FALSE]
RetObject(t)    == [kind |-> "return", t |-> t, s |-> <<>>, s2 |-> <<>>, b |-> FALSE]
Raise(e)        == [kind |-> "raise",  t |-> e, s |-> <<>>, s2 |-> <<>>, b |-> FALSE]
NoCall          == [kind |-> "none",   t |-> "", s |-> <<>>, s2 |-> <<>>, b |-> FALSE]

\* An attribute the constructor does not set (challenge, client_challenge,
\* server_challenge) before a method assigns it.
Unset == [t |-> "unset", s |-> <<>>]

\* OCRAChallengeResponse.__init__: the session, or the exception it raises.
\* remote is PyNone when no remote descriptor is given.
SessionErr(e) ==
    [ok |-> FALSE, exc |-> e,
     v |-> [key |-> <<>>, ocrasuite |-> NoSuite, has_remote |-> FALSE,
            remote_ocrasuite |-> NoSuite, state |-> 0, challenge |-> Unset,
            client_challenge |-> Unset, server_challenge |-> Unset]]

NewSession(key, ocrasuite, has_remote, remote_ocrasuite) ==
    [ok |-> TRUE, exc |-> "",
     v |-> [key |-> key, ocrasuite |-> ocrasuite, has_remote |-> has_remote,
            remote_ocrasuite |-> remote_ocrasuite, state |-> 1, challenge |-> Unset,
            client_challenge |-> Unset, server_challenge |-> Unset]]

\* remote_ocrasuite_description is not None and str2ocrasuite(...)
RemoteSuite(remote) ==
    IF remote.t = "none" THEN [ok |-> TRUE, exc |-> "", v |-> NoSuite]
    ELSE str2ocrasuite(remote.s)

\* A constructor without the check of Q.
InitSession_nocheck(key, ocrasuite, has_remote, remote_ocrasuite) ==
    IF ~ocrasuite.ok THEN SessionErr(ocrasuite.exc)
    ELSE IF ~remote_ocrasuite.ok THEN SessionErr(remote_ocrasuite.exc)
    ELSE NewSession(key, ocrasuite.v, has_remote, remote_ocrasuite.v)

\* The constructor once both descriptors are parsed.
InitSession(key, ocrasuite, has_remote, remote_ocrasuite) ==
    IF ~ocrasuite.ok THEN SessionErr(ocrasuite.exc)
    ELSE IF ~remote_ocrasuite.ok THEN SessionErr(remote_ocrasuite.exc)
    ELSE IF ocrasuite.v.data_input.Q = NoQ THEN SessionErr("ValueError")
    ELSE NewSession(key, ocrasuite.v, has_remote, remote_ocrasuite.v)

OCRAChallengeResponse(key, ocrasuite_description, remote) ==
    InitSession(key, str2ocrasuite(ocrasuite_description), remote.t # "none",
                RemoteSuite(remote))

\* self.remote_ocrasuite or self.ocrasuite
RemoteOrOwn(self) == IF self.has_remote THEN self.remote_ocrasuite ELSE self.ocrasuite

\* The characters the model draws random challenges from, per kind: a sample
\* of string.digits, of string.digits + string.ascii_letters, of string.hexdigits.
ChallengeAlphabet(kind) ==
    IF kind = "N" THEN {"0", "7"}
    ELSE IF kind = "A" THEN {"3", "z"}
    ELSE {"1", "F"}

\* compute_challenge(Q): the challenges random.choice can produce, restricted
\* to those that repeat one character of the sample; Q = None (a remote suite
\* without Q) cannot be unpacked.
compute_challenge(Q) ==
    IF Q = NoQ THEN {ErrS("TypeError")}
    ELSE {OkS([i \in 1..Q.len |-> a]) : a \in ChallengeAlphabet(Q.kind)}

\* a + b on the stored challenges: str + str, TypeError otherwise.
Concat(a, b) == IF a.t = "str" /\ b.t = "str" THEN OkS(a.s \o b.s) ELSE ErrS("TypeError")

\* A method's effect: the session after the call and what the caller gets.
Effect(self, ret) == [self |-> self, ret |-> ret]

\* A verification that moves the state whatever the comparison gave.
Verdict_always(self, otp, c, next) ==
    IF ~otp.ok THEN Effect(self, Raise(otp.exc))
    ELSE IF ~c.ok THEN Effect(self, Raise(c.exc))
    ELSE Effect([self EXCEPT !.state = next], RetBool(c.v))

\* "if c: self.state = next; return c", c being the result of
\* compare_digest(otp, response) and otp that of ocrasuite(key, ...).
Verdict(self, otp, c, next) ==
    IF ~otp.ok THEN Effect(self, Raise(otp.exc))
    ELSE IF ~c.ok THEN Effect(self, Raise(c.exc))
    ELSE IF c.v THEN Effect([self EXCEPT !.state = next], RetBool(TRUE))
    ELSE Effect(self, RetBool(FALSE))

VerifyAndAdvance(self, otp, response, next) ==
    Verdict(self, otp, compare_digest(PyStr(otp.v), response), next)

\* ---- OCRAChallengeResponseServer
SERVER_STATE_COMPUTE_CHALLENGE == 1
SERVER_STATE_VERIFY_RESPONSE == 2
SERVER_STATE_FINISHED == 3

\* c is the challenge that compute_challenge drew.
Server_compute_challenge(self, c) ==
    IF self.state # SERVER_STATE_COMPUTE_CHALLENGE THEN Effect(self, Raise("StateException"))
    ELSE IF ~c.ok THEN Effect(self, Raise(c.exc))
    ELSE Effect([self EXCEPT !.challenge = PyStr(c.v),
                             !.state = SERVER_STATE_VERIFY_RESPONSE], RetStr(c.v))

\* verify_response without the check of the state.
Server_verify_response_noguard(self, response, kwargs) ==
    VerifyAndAdvance(self,
        OcraSuite_call(RemoteOrOwn(self), self.key, [kwargs EXCEPT !.Q = self.challenge]),
        response, SERVER_STATE_FINISHED)

Server_verify_response(self, response, kwargs) ==
    IF self.state # SERVER_STATE_VERIFY_RESPONSE THEN Effect(self, RetObject("StateException"))
    ELSE VerifyAndAdvance(self,
            OcraSuite_call(RemoteOrOwn(self), self.key, [kwargs EXCEPT !.Q = self.challenge]),
            response, SERVER_STATE_FINISHED)

\* ---- OCRAChallengeResponseClient
Returned(self, otp) ==
    IF otp.ok THEN Effect(self, RetStr(otp.v)) ELSE Effect(self, Raise(otp.exc))

Client_compute_response(self, challenge, kwargs) ==
    Returned(self, OcraSuite_call(self.ocrasuite, self.key, [kwargs EXCEPT !.Q = challenge]))

\* ---- OCRAMutualChallengeResponseClient
CLIENT_STATE_COMPUTE_CLIENT_CHALLENGE == 1
CLIENT_STATE_VERIFY_SERVER_RESPONSE == 2
CLIENT_STATE_COMPUTE_CLIENT_RESPONSE == 3
CLIENT_STATE_FINISHED == 4

\* Qc or compute_challenge(...): Qc when it is given and not empty, else the
\* challenge c that compute_challenge drew.
OrDrawn(Qc, c) == IF Qc.t = "str" /\ Len(Qc.s) > 0 THEN OkS(Qc.s) ELSE c

StoreClientChallenge(self, c) ==
    IF ~c.ok THEN Effect(self, Raise(c.exc))
    ELSE Effect([self EXCEPT !.client_challenge = PyStr(c.v),
                             !.state = CLIENT_STATE_VERIFY_SERVER_RESPONSE], RetStr(c.v))

\* compute_client_challenge without the check of the state.
MutualClient_compute_client_challenge_noguard(self, Qc, c) ==
    StoreClientChallenge(self, OrDrawn(Qc, c))

MutualClient_compute_client_challenge(self, Qc, c) ==
    IF self.state # CLIENT_STATE_COMPUTE_CLIENT_CHALLENGE
    THEN Effect(self, Raise("StateException"))
    ELSE StoreClientChallenge(self, OrDrawn(Qc, c))

\* stored is the session with server_challenge assigned, q the concatenation
\* client_challenge + server_challenge.
VerifyServerResponse(stored, q, response, kwargs) ==
    IF ~q.ok THEN Effect(stored, Raise(q.exc))
    ELSE VerifyAndAdvance(stored,
            OcraSuite_call(RemoteOrOwn(stored), stored.key, [kwargs EXCEPT !.Qsc = PyStr(q.v)]),
            response, CLIENT_STATE_COMPUTE_CLIENT_RESPONSE)

\* verify_server_response advancing the state before the comparison.
MutualClient_verify_server_response_advance(self, response, challenge, kwargs) ==
    IF self.state # CLIENT_STATE_VERIFY_SERVER_RESPONSE
    THEN Effect(self, RetObject("StateException"))
    ELSE VerifyServerResponse([self EXCEPT !.server_challenge = challenge,
                                           !.state = CLIENT_STATE_COMPUTE_CLIENT_RESPONSE],
                              Concat(self.client_challenge, challenge), response, kwargs)

MutualClient_verify_server_response(self, response, challenge, kwargs) ==
    IF self.state # CLIENT_STATE_VERIFY_SERVER_RESPONSE
    THEN Effect(self, RetObject("StateException"))
    ELSE VerifyServerResponse([self EXCEPT !.server_challenge = challenge],
                              Concat(self.client_challenge, challenge), response, kwargs)

\* "self.state = CLIENT_STATE_FINISHED; return rc", rc being the result of
\* self.ocrasuite(self.key, Qsc=q, **kwargs)
FinishWith(self, rc) ==
    IF ~rc.ok THEN Effect(self, Raise(rc.exc))
    ELSE Effect([self EXCEPT !.state = CLIENT_STATE_FINISHED], RetStr(rc.v))

ClientResponse(self, q, kwargs) ==
    IF ~q.ok THEN Effect(self, Raise(q.exc))
    ELSE FinishWith(self, OcraSuite_call(self.ocrasuite, self.key,
                                         [kwargs EXCEPT !.Qsc = PyStr(q.v)]))

\* compute_client_response without the check of the state.
MutualClient_compute_client_response_noguard(self, kwargs) ==
    ClientResponse(self, Concat(self.server_challenge, self.client_challenge), kwargs)

MutualClient_compute_client_response(self, kwargs) ==
    IF self.state # CLIENT_STATE_COMPUTE_CLIENT_RESPONSE
    THEN Effect(self, RetObject("StateException"))
    ELSE ClientResponse(self, Concat(self.server_challenge, self.client_challenge), kwargs)

\* ---- OCRAMutualChallengeResponseServer
SERVER_STATE_COMPUTE_SERVER_RESPONSE == 1
SERVER_STATE_VERIFY_CLIENT_RESPONSE == 2
MUTUAL_SERVER_STATE_FINISHED == 3

\* kwargs.pop('P', None); kwargs.pop('P_digest', None)
PopPin(kwargs) == [kwargs EXCEPT !.P = PyNone, !.P_digest = PyNone]

\* A compute_server_response that moves the state before it calls the suite.
ReturnServerResponse_early(stored, rs) ==
    IF ~rs.ok
    THEN Effect([stored EXCEPT !.state = SERVER_STATE_VERIFY_CLIENT_RESPONSE], Raise(rs.exc))
    ELSE Effect([stored EXCEPT !.state = SERVER_STATE_VERIFY_CLIENT_RESPONSE],
                RetTuple(rs.v, stored.server_challenge.s))

\* "self.state = ...; return rs, self.server_challenge", rs being the result of
\* self.ocrasuite(self.key, Qsc=q, **kwargs)
ReturnServerResponse(stored, rs) ==
    IF ~rs.ok THEN Effect(stored, Raise(rs.exc))
    ELSE Effect([stored EXCEPT !.state = SERVER_STATE_VERIFY_CLIENT_RESPONSE],
                RetTuple(rs.v, stored.server_challenge.s))

\* stored is the session with both challenges assigned, q their concatenation.
ServerResponse(stored, q, kwargs) ==
    IF ~q.ok THEN Effect(stored, Raise(q.exc))
    ELSE ReturnServerResponse(stored,
            OcraSuite_call(stored.ocrasuite, stored.key,
                           [PopPin(kwargs) EXCEPT !.Qsc = PyStr(q.v)]))

\* sc is Qs or compute_challenge(self.ocrasuite.data_input.Q)
StoreChallenges(self, challenge, sc, kwargs) ==
    IF ~sc.ok THEN Effect([self EXCEPT !.client_challenge = challenge], Raise(sc.exc))
    ELSE ServerResponse([self EXCEPT !.client_challenge = challenge,
                                     !.server_challenge = PyStr(sc.v)],
                        Concat(challenge, PyStr(sc.v)), kwargs)

MutualServer_compute_server_response(self, challenge, Qs, c, kwargs) ==
    IF self.state # SERVER_STATE_COMPUTE_SERVER_RESPONSE
    THEN Effect(self, Raise("StateException"))
    ELSE StoreChallenges(self, challenge, OrDrawn(Qs, c), kwargs)

VerifyClientResponse(self, q, response, kwargs) ==
    IF ~q.ok THEN Effect(self, Raise(q.exc))
    ELSE VerifyAndAdvance(self,
            OcraSuite_call(RemoteOrOwn(self), self.key, [kwargs EXCEPT !.Qsc = PyStr(q.v)]),
            response, MUTUAL_SERVER_STATE_FINISHED)

\* A verify_client_response over client_challenge + server_challenge.
MutualServer_verify_client_response_clientfirst(self, response, kwargs) ==
    IF self.state # SERVER_STATE_VERIFY_CLIENT_RESPONSE
    THEN Effect(self, Raise("StateException"))
    ELSE VerifyClientResponse(self, Concat(self.client_challenge, self.server_challenge),
                              response, kwargs)

MutualServer_verify_client_response(self, response, kwargs) ==
    IF self.state # SERVER_STATE_VERIFY_CLIENT_RESPONSE
    THEN Effect(self, Raise("StateException"))
    ELSE VerifyClientResponse(self, Concat(self.server_challenge, self.client_challenge),
                              response, kwargs)


\* ------------------------------------------------------------- oath/_hotp.py
\* An integer argument of the size of a counter of the model.
IntOf(n) == IF n < 0 THEN NegInt(0 - n) ELSE NatInt(n)

\* A call that returns a str or bytes value, or raises.
OkV(v) == [ok |-> TRUE, exc |-> "", v |-> v]
ErrV(e) == [ok |-> FALSE, exc |-> e, v |-> PyNone]
AsStr(r) == IF r.ok THEN OkV(PyStr(r.v)) ELSE ErrV(r.exc)

\* tohex(bin): binascii.hexlify(bin).decode('ascii')
tohex(bin) ==
    [i \in 1..(2 * Len(bin)) |->
        IF i % 2 = 1 THEN HexChars[(bin[(i + 1) \div 2] \div 16) + 1]
        ELSE HexChars[(bin[i \div 2] % 16) + 1]]

\* __hotp(key, counter, hash): hmac.new(bin_key, bin_counter, hash).digest(),
\* bin_counter being int2beint64(counter) and bin_key fromhex(key)
hotp_digest(bin_counter, bin_key, hash) ==
    IF ~bin_counter.ok THEN bin_counter
    ELSE IF ~bin_key.ok THEN bin_key
    ELSE OkS(hmac_digest(bin_key.v, bin_counter.v, hash))

\* '%x' % truncated_value(bin_hotp)
HexOf(tv) == IF tv.ok THEN OkS(FormatHex(IntToStr(tv.v))) ELSE ErrS(tv.exc)

\* The value hotp returns for the digest bin_hotp in the format.
Formatted(bin_hotp, format) ==
    IF ~bin_hotp.ok THEN ErrV(bin_hotp.exc)
    ELSE IF format = "dec4" THEN AsStr(dec(bin_hotp.v, 4))
    ELSE IF format = "dec6" THEN AsStr(dec(bin_hotp.v, 6))
    ELSE IF format = "dec7" THEN AsStr(dec(bin_hotp.v, 7))
    ELSE IF format = "dec8" THEN AsStr(dec(bin_hotp.v, 8))
    ELSE IF format = "hex" THEN AsStr(HexOf(truncated_value(bin_hotp.v)))
    ELSE IF format = "hex-notrunc" THEN OkV(PyStr(tohex(bin_hotp.v)))
    ELSE IF format = "bin" THEN OkV(PyBytes(bin_hotp.v))
    ELSE IF format = "dec" THEN AsStr(StrOf(truncated_value(bin_hotp.v)))
    ELSE ErrV("ValueError")

\* hotp(key, counter, format, hash), counter being an integer argument
hotp(key, counter, format, hash) ==
    Formatted(hotp_digest(int2beint64(counter), fromhex(key), hash), format)

\* What accept_hotp and accept_totp return: a pair, or an exception.
OkA(b, n) == [ok |-> TRUE, exc |-> "", v |-> <<b, n>>]
ErrA(e) == [ok |-> FALSE, exc |-> e, v |-> <<FALSE, 0>>]

\* compare_digest(otp, response), otp being the result of hotp or totp
Compared(otp, response) ==
    IF ~otp.ok THEN ErrB(otp.exc) ELSE compare_digest(otp.v, response)

\* for i in range(-backward_drift, drift + 1), from i on: c is the comparison
\* of hotp(key, counter + i) with str(response)
RECURSIVE HotpWindow(_, _, _, _, _, _, _)
\* the match returning the counter matched instead of the one after it
HotpMatch_same(c, key, response, counter, format, hash, i, drift) ==
    IF ~c.ok THEN ErrA(c.exc)
    ELSE IF c.v THEN OkA(TRUE, counter + i)
    ELSE HotpWindow(key, response, counter, format, hash, i + 1, drift)
HotpMatch(c, key, response, counter, format, hash, i, drift) ==
    IF ~c.ok THEN ErrA(c.exc)
    ELSE IF c.v THEN OkA(TRUE, counter + i + 1)
    ELSE HotpWindow(key, response, counter, format, hash, i + 1, drift)
HotpWindow(key, response, counter, format, hash, i, drift) ==
    IF i > drift THEN OkA(FALSE, counter)
    ELSE HotpMatch(Compared(hotp(key, IntOf(counter + i), format, hash),
                            PyStr(str(response))),
                   key, response, counter, format, hash, i, drift)

accept_hotp(key, response, counter, format, hash, drift, backward_drift) ==
    HotpWindow(key, response, counter, format, hash, 0 - backward_drift, drift)

\* ------------------------------------------------------------- oath/_totp.py
\* int(t / period): the quotient, rounded towards zero
TruncDiv(t, period) == IF t < 0 THEN 0 - ((0 - t) \div period) ELSE t \div period

\* totp(key, format, period, t, hash) for an integer t
totp(key, format, period, t, hash) == hotp(key, IntOf(TruncDiv(t, period)), format, hash)

\* for i in range(max(-divmod(t, period)[0], -backward_drift), forward_drift + 1),
\* from i on: c is the comparison of totp(t + (drift + i) * period) with response
RECURSIVE TotpWindow(_, _, _, _, _, _, _, _, _)
TotpMatch(c, key, response, format, period, t, hash, forward_drift, drift, i) ==
    IF ~c.ok THEN ErrA(c.exc)
    ELSE IF c.v THEN OkA(TRUE, drift + i)
    ELSE TotpWindow(key, response, format, period, t, hash, forward_drift, drift, i + 1)
TotpWindow(key, response, format, period, t, hash, forward_drift, drift, i) ==
    IF i > forward_drift THEN OkA(FALSE, 0)
    ELSE TotpMatch(Compared(totp(key, format, period, t + (drift + i) * period, hash),
                            response),
                   key, response, format, period, t, hash, forward_drift, drift, i)

accept_totp(key, response, format, period, t, hash, forward_drift, backward_drift, drift) ==
    TotpWindow(key, response, format, period, t, hash, forward_drift, drift,
               Max(0 - (t \div period), 0 - backward_drift))

\* The arguments of a call of accept_hotp or accept_totp besides the key, the
\* response, the format and the hash.
AcceptArgs(counter, drift, backward_drift, forward_drift, period, t) ==
    [counter |-> counter, drift |-> drift, backward_drift |-> backward_drift,
     forward_drift |-> forward_drift, period |-> period, t |-> t]
NoAcceptArgs == AcceptArgs(0, 0, 0, 0, 0, 0)


\* ------------------------------------------------ oath/google_authenticator.py
TOTP == <<"t","o","t","p">>
HOTP == <<"h","o","t","p">>

\* str.upper() on one character.
UpperChar(c) ==
    IF c \in LowerSet THEN UpperChars[CHOOSE i \in 1..26 : LowerChars[i] = c] ELSE c
upper(s) == [i \in 1..Len(s) |-> UpperChar(s[i])]

\* The base32 alphabet: A..Z are 0..25 and 2..7 are 26..31.
Base32Set == UpperSet \cup {"2", "3", "4", "5", "6", "7"}
Base32Val(c) ==
    IF c \in UpperSet THEN (CHOOSE i \in 1..26 : UpperChars[i] = c) - 1
    ELSE DigitVal(c) + 24

\* Bit b (from 0, the first) of the five-bit groups of the characters.
Pow2(n) == IF n = 0 THEN 1 ELSE IF n = 1 THEN 2 ELSE IF n = 2 THEN 4 ELSE IF n = 3 THEN 8 ELSE 16
Base32Bit(data, b) == (Base32Val(data[(b \div 5) + 1]) \div Pow2(4 - (b % 5))) % 2
Base32Byte(data, j) ==
    128 * Base32Bit(data, 8 * j) + 64 * Base32Bit(data, 8 * j + 1)
    + 32 * Base32Bit(data, 8 * j + 2) + 16 * Base32Bit(data, 8 * j + 3)
    + 8 * Base32Bit(data, 8 * j + 4) + 4 * Base32Bit(data, 8 * j + 5)
    + 2 * Base32Bit(data, 8 * j + 6) + Base32Bit(data, 8 * j + 7)

\* base64.b32decode of the characters before the padding: binascii.Error for
\* a character outside the alphabet or a length the padding cannot complete.
b32decode(data) ==
    IF (Len(data) % 8) \notin {0, 2, 4, 5, 7} \/ \E i \in 1..Len(data) : data[i] \notin Base32Set
    THEN ErrS("binascii.Error")
    ELSE OkS([j \in 1..((5 * Len(data)) \div 8) |-> Base32Byte(data, j - 1)])

\* lenient_b32decode(data): upper case, padded with '=' to a multiple of 8
lenient_b32decode(data) == b32decode(upper(data))

\* An otpauth URI as urlparse and parse_qs split it: whether it starts with
\* 'otpauth://', the hostname (the type) and the first value of each field
\* of the query, None for a field the query does not have.
OtpauthUri(type, secret, algorithm, digits, period, counter) ==
    [otpauth |-> TRUE, type |-> type, secret |-> secret, algorithm |-> algorithm,
     digits |-> digits, period |-> period, counter |-> counter]

\* The parameters parse_otpauth returns; period is -1 when there is none.
OtpParams(type, secret, algorithm, digits, period, counter) ==
    [type |-> type, secret |-> secret, algorithm |-> algorithm, digits |-> digits,
     period |-> period, counter |-> counter]
NoOtpParams == OtpParams(<<>>, <<>>, <<>>, 0, -1, 0)
UriErr(e) == [ok |-> FALSE, exc |-> e, v |-> NoOtpParams]

\* int(params[key]) for a field of the query, and the default of a field
\* the query does not have
FieldInt(field, default) == IF field.t = "none" THEN OkN(default) ELSE PyInt(field.s)

\* The checks of parse_otpauth once the secret is decoded and the numbers
\* are converted.
CheckedParams(uri, secret, algorithm, digits, period, counter) ==
    IF ~secret.ok THEN UriErr(secret.exc)
    ELSE IF algorithm \notin {<<"s","h","a","1">>, <<"s","h","a","2","5","6">>, <<"s","h","a","5","1","2">>, <<"m","d","5">>} THEN UriErr("ValueError")
    ELSE IF ~digits.ok \/ ~period.ok \/ ~counter.ok THEN UriErr("ValueError")
    ELSE IF digits.v \notin {6, 8} THEN UriErr("ValueError")
    ELSE [ok |-> TRUE, exc |-> "",
          v |-> OtpParams(uri.type, tohex(secret.v), algorithm, digits.v, period.v, counter.v)]

parse_otpauth(uri) ==
    IF ~uri.otpauth THEN UriErr("ValueError")
    ELSE IF uri.secret.t = "none" THEN UriErr("ValueError")
    ELSE CheckedParams(uri, lenient_b32decode(uri.secret.s),
                       IF uri.algorithm.t = "none" THEN <<"s","h","a","1">> ELSE lower(uri.algorithm.s),
                       FieldInt(uri.digits, 6),
                       FieldInt(uri.period, IF uri.type = TOTP THEN 30 ELSE -1),
                       FieldInt(uri.counter, 0))

\* A state dictionary: the counter and the drift it holds, if any.
StateDict(has_counter, counter, has_drift, drift) ==
    [has_counter |-> has_counter, counter |-> counter, has_drift |-> has_drift,
     drift |-> drift]
EmptyDict == StateDict(FALSE, 0, FALSE, 0)

\* GoogleAuthenticator(otpauth_uri, state): generator_state = state or {} and
\* acceptor_state = state or {} are one dictionary when a state that is not
\* empty is given, and two when it is not.
Authenticator(parsed, state) ==
    [ok |-> parsed.ok, exc |-> parsed.exc, parsed_otpauth_uri |-> parsed.v,
     shared |-> state # EmptyDict, generator_state |-> state, acceptor_state |-> state]
GoogleAuthenticator(otpauth_uri, state) == Authenticator(parse_otpauth(otpauth_uri), state)

\* from_b32key(b32_key, state): the URI 'otpauth://totp/xxx?secret=' + b32_key
from_b32key(b32_key, state) ==
    GoogleAuthenticator(OtpauthUri(TOTP, PyStr(b32_key), PyNone, PyNone, PyNone, PyNone), state)

\* 'dec%s' % digits
DecFormat(digits) == IF digits = 8 THEN "dec8" ELSE "dec6"

\* if COUNTER not in state: state[COUNTER] = self.parsed_otpauth_uri[COUNTER]
WithCounter(state, p) ==
    IF state.has_counter THEN state ELSE [state EXCEPT !.has_counter = TRUE, !.counter = p.counter]
\* if DRIFT not in state: state[DRIFT] = 0
WithDrift(state) ==
    IF state.has_drift THEN state ELSE [state EXCEPT !.has_drift = TRUE, !.drift = 0]

\* A method of the authenticator: the object after the call and what the call
\* returned or raised.
GaResult(self, ret) == [self |-> self, ret |-> ret]
\* The object with the dictionary of which the method has changed.
Generator(self, state) ==
    IF self.shared THEN [self EXCEPT !.generator_state = state, !.acceptor_state = state]
    ELSE [self EXCEPT !.generator_state = state]
Acceptor(self, state) ==
    IF self.shared THEN [self EXCEPT !.generator_state = state, !.acceptor_state = state]
    ELSE [self EXCEPT !.acceptor_state = state]

\* otp = hotp.hotp(secret, state[COUNTER], ...); state[COUNTER] += 1
GenerateHotp(self, state, otp) ==
    IF ~otp.ok THEN GaResult(Generator(self, state), otp)
    ELSE GaResult(Generator(self, [state EXCEPT !.counter = @ + 1]), otp)

GoogleAuthenticator_generate(self, t) ==
    IF self.parsed_otpauth_uri.type = HOTP
    THEN GenerateHotp(self, WithCounter(self.generator_state, self.parsed_otpauth_uri),
                      hotp(self.parsed_otpauth_uri.secret,
                           IntOf(WithCounter(self.generator_state, self.parsed_otpauth_uri).counter),
                           DecFormat(self.parsed_otpauth_uri.digits),
                           self.parsed_otpauth_uri.algorithm))
    ELSE IF self.parsed_otpauth_uri.type = TOTP
    THEN GaResult(self, totp(self.parsed_otpauth_uri.secret,
                             DecFormat(self.parsed_otpauth_uri.digits),
                             self.parsed_otpauth_uri.period, t,
                             self.parsed_otpauth_uri.algorithm))
    ELSE GaResult(self, ErrV("NotImplementedError"))

\* ok, state[COUNTER] = ...: the pair is stored when the call returns
AcceptHotpResult(self, state, r) ==
    IF ~r.ok THEN GaResult(Acceptor(self, state), ErrB(r.exc))
    ELSE GaResult(Acceptor(self, [state EXCEPT !.counter = r.v[2]]), OkB(r.v[1]))
AcceptTotpResult(self, state, r) ==
    IF ~r.ok THEN GaResult(Acceptor(self, state), ErrB(r.exc))
    ELSE GaResult(Acceptor(self, [state EXCEPT !.drift = r.v[2]]), OkB(r.v[1]))

\* accept(otp, hotp_drift, hotp_backward_drift, totp_forward_drift,
\* totp_backward_drift, t): for the type hotp the call is
\* hotp.accept_hotp(otp, secret, state[COUNTER], ...), whose first parameters
\* are key and response
GoogleAuthenticator_accept(self, otp, hotp_drift, hotp_backward_drift, totp_forward_drift, totp_backward_drift, t) ==
    IF self.parsed_otpauth_uri.type = HOTP
    THEN AcceptHotpResult(self, WithCounter(self.acceptor_state, self.parsed_otpauth_uri),
             accept_hotp(otp.s, PyStr(self.parsed_otpauth_uri.secret),
                         WithCounter(self.acceptor_state, self.parsed_otpauth_uri).counter,
                         DecFormat(self.parsed_otpauth_uri.digits),
                         self.parsed_otpauth_uri.algorithm, hotp_drift, hotp_backward_drift))
    ELSE IF self.parsed_otpauth_uri.type = TOTP
    THEN AcceptTotpResult(self, WithDrift(self.acceptor_state),
             accept_totp(self.parsed_otpauth_uri.secret, otp,
                         DecFormat(self.parsed_otpauth_uri.digits),
                         self.parsed_otpauth_uri.period, t,
                         self.parsed_otpauth_uri.algorithm, totp_forward_drift,
                         totp_backward_drift, WithDrift(self.acceptor_state).drift))
    ELSE GaResult(self, ErrB("NotImplementedError"))


\* ------------------------------------------------------------ the state
\* One use of the library: an exchange between two sessions, or an OcraSuite
\* called directly.
\* setup     the constructor arguments of the use (fixed after Init)
\* server    the OCRAChallengeResponseServer        (one-way exchange)
\* client    the OCRAChallengeResponseClient        (one-way exchange)
\* mclient   the OCRAMutualChallengeResponseClient  (mutual exchange)
\* mserver   the OCRAMutualChallengeResponseServer  (mutual exchange)
\* last      the latest call: its method, the state of its session before the
\*           call, the response and keyword arguments passed, and what it got
\* wire      the values the caller holds from earlier calls and hands on
\* run       how many calls of the exchange's sequence have been made, each with
\*           the values the caller holds and nothing else called; -1 once any
\*           other call was made
\* verified  verify_server_response has returned True in this session
\* suite, key, params   the OcraSuite called directly, and the arguments of
\*           its latest call
\* otp       what suite(key, **params) gave
\* candidate, accepted  the response handed to suite.accept and what it gave
\* digest, digits, token   a digest, a truncation length and what the crypto
\*           function made of them
\* enc       a data input descriptor, what str2datainput gave for it, the
\*           keyword arguments of the latest call of that DataInput and the
\*           buffer the call gave
\* hcall     a validation server of HOTP or of TOTP (fn is the function it
\*           calls): the key, format and hash of a token, the counter or the
\*           drift the server stores for it, and the latest call of
\*           accept_hotp or accept_totp with what it returned
\* ga        a GoogleAuthenticator, the latest code generate returned with
\*           the time of the call, and the latest call of accept: the code
\*           and the time passed, the acceptor state before the call, and
\*           what the call returned
\* descr, parsed, shown, reparsed, built   a descriptor, what str2ocrasuite
\*           gave for it, str() of that suite, what str2ocrasuite gave for
\*           that string, and the latest constructor call with the descriptor
VARIABLES setup, server, client, mclient, mserver, last, wire, run, verified,
          suite, key, params, otp, candidate, accepted, digest, digits, token,
          descr, parsed, shown, reparsed, built, enc, hcall, ga
svars == <<setup, server, client, mclient, mserver, last, wire, run, verified>>
pvars == <<suite, key, params, otp, candidate, accepted>>
tvars == <<digest, digits, token>>
dvars == <<descr, parsed, shown, reparsed, built>>
xvars == <<enc, hcall, ga>>
vars == <<svars, pvars, tvars, dvars, xvars>>

Key1 == <<49, 50, 51, 52>>
Key2 == <<49, 50, 51, 53>>
Pin == <<"1","2","3","4">>

\* The two digits nn of Qxnn
Q2(n) == zfill(IntToStr(n), 2)
SuiteN  == <<"O","C","R","A","-","1",":","H","O","T","P","-","S","H","A","1","-","6",":","Q","N">> \o Q2(ChallengeLength)
SuiteA  == <<"O","C","R","A","-","1",":","H","O","T","P","-","S","H","A","2","5","6","-","8",":","Q","A">> \o Q2(ChallengeLength)
SuiteAP == <<"O","C","R","A","-","1",":","H","O","T","P","-","S","H","A","2","5","6","-","8",":","Q","A">> \o Q2(ChallengeLength) \o <<"-","P","S","H","A","1">>
SuiteH  == <<"O","C","R","A","-","1",":","H","O","T","P","-","S","H","A","1","-","6",":","Q","H">> \o Q2(ChallengeLength)
SuiteH5 == <<"O","C","R","A","-","1",":","H","O","T","P","-","S","H","A","5","1","2","-","0",":","Q","H">> \o Q2(ChallengeLength + 1)

\* The constructor arguments of one use of the library.
Setup(proto, ckey, cdesc, cremote, skey, sdesc, sremote) ==
    [proto |-> proto, ckey |-> ckey, cdesc |-> cdesc, cremote |-> cremote,
     skey |-> skey, sdesc |-> sdesc, sremote |-> sremote]

\* The exchanges of the model: as in tests/ocra.py one suite on both sides, or
\* a client suite with a pin and the other side's suite as the remote suite;
\* and a one-way exchange whose keys differ.
Setups ==
    { Setup(proto, Key1, SuiteN, PyNone, Key1, SuiteN, PyNone) : proto \in {"oneway", "mutual"} }
    \cup { Setup("mutual", Key1, SuiteH, PyNone, Key1, SuiteH, PyNone),
           Setup("mutual", Key1, SuiteAP, PyStr(SuiteA), Key1, SuiteA, PyStr(SuiteAP)),
           Setup("oneway", Key1, SuiteAP, PyNone, Key1, SuiteA, PyStr(SuiteAP)),
           Setup("oneway", Key1, SuiteH5, PyNone, Key2, SuiteH5, PyNone) }

\* The session of a class the use does not construct.
Absent == SessionErr("").v

\* The keyword arguments a suite needs (tests/ocra.py passes P when the
\* suite has a P field).
ParamsFor(s) == IF s.data_input.P # <<>> THEN [NoParams EXCEPT !.P = PyStr(Pin)] ELSE NoParams

\* Challenges a caller supplies itself.
UserChallenges == {PyStr(<<"a","b","c">>)}

\* An optional challenge argument and the challenge compute_challenge draws
\* when the argument is None: compute_challenge runs only then.
GivenOrDrawn(Q) ==
    {[Q |-> q, c |-> ErrS("")] : q \in UserChallenges}
    \cup {[Q |-> PyNone, c |-> c] : c \in compute_challenge(Q)}

\* The responses a caller presents, w being the response it holds: that
\* response, the response without its last character, with another last
\* character, and the same characters as bytes.
Flip(c) == IF c = "0" THEN "1" ELSE "0"
Responses(w) ==
    IF w.t # "str" \/ Len(w.s) = 0 THEN {w, PyStr(<<"0","0","0","0","0","0">>)}
    ELSE {w, PyStr(Slice(w.s, 0, Len(w.s) - 1)),
          PyStr([w.s EXCEPT ![Len(w.s)] = Flip(w.s[Len(w.s)])]), PyBytes(w.s)}

\* An OcraSuite called directly: its descriptors and keyword arguments.
SuiteCQP == <<"O","C","R","A","-","1",":","H","O","T","P","-","S","H","A","1","-","6",":","C","-","Q","N">> \o Q2(ChallengeLength) \o <<"-","P","S","H","A","1">>
SuiteST  == <<"O","C","R","A","-","1",":","H","O","T","P","-","S","H","A","2","5","6","-","8",":","Q","A">> \o Q2(ChallengeLength) \o <<"-","S","0","0","3","-","T","1","M">>
SuiteUses ==
    {Setup("suite", k, d, PyNone, k, d, PyNone) :
        k \in {Key1, Key2}, d \in {SuiteN, SuiteH5, SuiteCQP, SuiteST}}

SuiteParams ==
    {[NoParams EXCEPT !.Q = q, !.C = c, !.P = PyStr(Pin), !.S = PyStr(<<"a","b","c">>),
                      !.T_precomputed = t] :
        q \in {PyStr(<<"1","2","3","4">>), PyStr(<<"a","b">>)}, c \in {NatInt(0), NatInt(5)},
        t \in {NatInt(20), NotAnInt}}
    \cup {NoParams}

\* The responses handed to accept, otp being the result of the suite's call.
Candidates(r) == IF r.ok THEN Responses(PyStr(r.v)) ELSE {PyStr(<<"0","0","0","0","0","0">>)}

SInit ==
    /\ server = IF setup.proto = "oneway"
                THEN OCRAChallengeResponse(setup.skey, setup.sdesc, setup.sremote).v ELSE Absent
    /\ client = IF setup.proto = "oneway"
                THEN OCRAChallengeResponse(setup.ckey, setup.cdesc, setup.cremote).v ELSE Absent
    /\ mclient = IF setup.proto = "mutual"
                 THEN OCRAChallengeResponse(setup.ckey, setup.cdesc, setup.cremote).v ELSE Absent
    /\ mserver = IF setup.proto = "mutual"
                 THEN OCRAChallengeResponse(setup.skey, setup.sdesc, setup.sremote).v ELSE Absent
    /\ last = [op |-> "", pre |-> 0, arg |-> PyNone, kwargs |-> NoParams, ret |-> NoCall]
    /\ wire = [resp |-> PyNone, rs |-> PyNone, qs |-> PyNone, rc |-> PyNone]
    /\ run = 0
    /\ verified = FALSE
PInit ==
    /\ suite = IF setup.proto = "suite" THEN str2ocrasuite(setup.cdesc).v ELSE NoSuite
    /\ key = IF setup.proto = "suite" THEN setup.ckey ELSE <<>>
    /\ params = NoParams /\ otp = ErrS("") /\ candidate = PyNone /\ accepted = ErrB("")
TInit == digest = <<>> /\ digits = 0 /\ token = ErrS("")
DInit ==
    /\ descr = <<>> /\ parsed = SuiteErr("") /\ shown = <<>> /\ reparsed = SuiteErr("")
    /\ built = [cls |-> "", remote |-> PyNone, ok |-> FALSE, exc |-> ""]
EInit_enc ==
    [descr |-> <<>>, di |-> DIErr(""), called |-> FALSE, p |-> NoParams, out |-> ErrS("")]
EInit == enc = EInit_enc
HInit_hcall ==
    [key |-> <<>>, format |-> "", hash |-> <<>>, counter |-> 0, drift |-> 0, fn |-> "",
     called |-> FALSE, response |-> PyNone, args |-> NoAcceptArgs, ret |-> ErrA("")]
HInit == hcall = HInit_hcall
GInit_ga ==
    [self |-> Authenticator(UriErr(""), EmptyDict), generated |-> ErrV(""), generated_at |-> 0,
     otp |-> PyNone, at |-> 0, before |-> EmptyDict, ret |-> ErrB("")]
GInit == ga = GInit_ga
XInit == EInit /\ HInit /\ GInit

Init == setup \in Setups \cup SuiteUses /\ SInit /\ PInit /\ TInit /\ DInit /\ XInit

\* The keyword arguments the callers of the model pass: none, or the pin in
\* an exchange where a suite has a P field.
UsesPin == \E s \in {client, server, mclient, mserver} : s.ocrasuite.data_input.P # <<>>
Kwargs == IF UsesPin THEN {NoParams, [NoParams EXCEPT !.P = PyStr(Pin)]} ELSE {NoParams}

Called(op, pre, arg, kwargs, ret) ==
    [op |-> op, pre |-> pre, arg |-> arg, kwargs |-> kwargs, ret |-> ret]
Held(ret) == IF ret.kind = "return" /\ ret.t \in {"str", "tuple"} THEN PyStr(ret.s) ELSE PyNone
\* The checks DataInput.__call__ makes on a challenge of at most Q.len characters.
Admits(Q, c) ==
    /\ Q # NoQ /\ c.t = "str" /\ Len(c.s) <= Q.len
    /\ Q.kind = "N" => isdigit(c.s)
    /\ Q.kind = "A" => isalnum(c.s)
    /\ Q.kind = "H" => PyIntBase16Ok(c.s)
Advance(k, honest) == IF run = k /\ honest THEN k + 1 ELSE -1

\* server.compute_challenge()
DoServerComputeChallenge(e) ==
    /\ server' = e.self
    /\ last' = Called("compute_challenge", server.state, PyNone, NoParams, e.ret)
    /\ run' = Advance(0, TRUE)
    /\ UNCHANGED <<setup, client, mclient, mserver, wire, verified, pvars, tvars, dvars, xvars>>

ServerComputeChallenge ==
    /\ setup.proto = "oneway"
    /\ \E c \in compute_challenge(RemoteOrOwn(server).data_input.Q) :
         DoServerComputeChallenge(Server_compute_challenge(server, c))

\* client.compute_response(challenge, **kwargs)
DoClientComputeResponse(e, kwargs, honest) ==
    /\ client' = e.self
    /\ last' = Called("compute_response", client.state, PyNone, kwargs, e.ret)
    /\ wire' = [wire EXCEPT !.resp = Held(e.ret)]
    /\ run' = Advance(1, honest)
    /\ UNCHANGED <<setup, server, mclient, mserver, verified, pvars, tvars, dvars, xvars>>

ClientComputeResponse ==
    /\ setup.proto = "oneway"
    /\ \E challenge \in {server.challenge} \cup UserChallenges, kwargs \in Kwargs :
         DoClientComputeResponse(Client_compute_response(client, challenge, kwargs), kwargs,
                                 challenge = server.challenge
                                 /\ kwargs = ParamsFor(client.ocrasuite))

\* server.verify_response(response, **kwargs)
DoServerVerifyResponse(e, response, kwargs, honest) ==
    /\ server' = e.self
    /\ last' = Called("verify_response", server.state, response, kwargs, e.ret)
    /\ run' = Advance(2, honest)
    /\ UNCHANGED <<setup, client, mclient, mserver, wire, verified, pvars, tvars, dvars, xvars>>

ServerVerifyResponse ==
    /\ setup.proto = "oneway"
    /\ \E response \in Responses(wire.resp), kwargs \in Kwargs :
         DoServerVerifyResponse(Server_verify_response(server, response, kwargs), response, kwargs,
                                response = wire.resp
                                /\ kwargs = ParamsFor(RemoteOrOwn(server)))

\* mclient.compute_client_challenge(Qc)
DoMutualClientComputeClientChallenge(e, honest) ==
    /\ mclient' = e.self
    /\ last' = Called("compute_client_challenge", mclient.state, PyNone, NoParams, e.ret)
    /\ run' = Advance(0, honest)
    /\ UNCHANGED <<setup, server, client, mserver, wire, verified, pvars, tvars, dvars, xvars>>

MutualClientComputeClientChallenge ==
    /\ setup.proto = "mutual"
    /\ \E given \in GivenOrDrawn(RemoteOrOwn(mclient).data_input.Q) :
         DoMutualClientComputeClientChallenge(
             MutualClient_compute_client_challenge(mclient, given.Q, given.c),
             given.Q = PyNone \/ Admits(RemoteOrOwn(mclient).data_input.Q, given.Q))

\* mserver.compute_server_response(challenge, Qs, **kwargs), challenge being
\* the challenge the client holds
DoMutualServerComputeServerResponse(e, kwargs, honest) ==
    /\ mserver' = e.self
    /\ last' = Called("compute_server_response", mserver.state, PyNone, kwargs, e.ret)
    /\ wire' = IF e.ret.kind = "return" /\ e.ret.t = "tuple"
               THEN [wire EXCEPT !.rs = PyStr(e.ret.s), !.qs = PyStr(e.ret.s2)]
               ELSE wire
    /\ run' = Advance(1, honest)
    /\ UNCHANGED <<setup, server, client, mclient, verified, pvars, tvars, dvars, xvars>>

MutualServerComputeServerResponse ==
    /\ setup.proto = "mutual"
    /\ \E given \in GivenOrDrawn(mserver.ocrasuite.data_input.Q), kwargs \in Kwargs :
         DoMutualServerComputeServerResponse(
             MutualServer_compute_server_response(mserver, mclient.client_challenge,
                                                  given.Q, given.c, kwargs),
             kwargs,
             /\ kwargs = ParamsFor(mserver.ocrasuite)
             /\ given.Q = PyNone \/ Admits(mserver.ocrasuite.data_input.Q, given.Q))

\* mclient.verify_server_response(response, challenge, **kwargs)
DoMutualClientVerifyServerResponse(e, response, kwargs, honest) ==
    /\ mclient' = e.self
    /\ last' = Called("verify_server_response", mclient.state, response, kwargs, e.ret)
    /\ verified' = (verified \/ e.ret = RetBool(TRUE))
    /\ run' = Advance(2, honest)
    /\ UNCHANGED <<setup, server, client, mserver, wire, pvars, tvars, dvars, xvars>>

MutualClientVerifyServerResponse ==
    /\ setup.proto = "mutual"
    /\ \E response \in Responses(wire.rs), challenge \in {wire.qs, PyStr(<<"0","0","0","0">>)},
          kwargs \in Kwargs :
         DoMutualClientVerifyServerResponse(
             MutualClient_verify_server_response(mclient, response, challenge, kwargs),
             response, kwargs,
             response = wire.rs /\ challenge = wire.qs
             /\ kwargs = ParamsFor(RemoteOrOwn(mclient)))

\* mclient.compute_client_response(**kwargs)
DoMutualClientComputeClientResponse(e, kwargs, honest) ==
    /\ mclient' = e.self
    /\ last' = Called("compute_client_response", mclient.state, PyNone, kwargs, e.ret)
    /\ wire' = IF e.ret.kind = "return" /\ e.ret.t = "str"
               THEN [wire EXCEPT !.rc = PyStr(e.ret.s)] ELSE wire
    /\ run' = Advance(3, honest)
    /\ UNCHANGED <<setup, server, client, mserver, verified, pvars, tvars, dvars, xvars>>

MutualClientComputeClientResponse ==
    /\ setup.proto = "mutual"
    /\ \E kwargs \in Kwargs :
         DoMutualClientComputeClientResponse(
             MutualClient_compute_client_response(mclient, kwargs), kwargs,
             kwargs = ParamsFor(mclient.ocrasuite))

\* mserver.verify_client_response(response, **kwargs)
DoMutualServerVerifyClientResponse(e, response, kwargs, honest) ==
    /\ mserver' = e.self
    /\ last' = Called("verify_client_response", mserver.state, response, kwargs, e.ret)
    /\ run' = Advance(4, honest)
    /\ UNCHANGED <<setup, server, client, mclient, wire, verified, pvars, tvars, dvars, xvars>>

MutualServerVerifyClientResponse ==
    /\ setup.proto = "mutual"
    /\ \E response \in Responses(wire.rc), kwargs \in Kwargs :
         DoMutualServerVerifyClientResponse(
             MutualServer_verify_client_response(mserver, response, kwargs), response, kwargs,
             response = wire.rc /\ kwargs = ParamsFor(RemoteOrOwn(mserver)))

\* suite(key, **params)
SuiteCall ==
    /\ setup.proto = "suite"
    /\ \E p \in SuiteParams :
         /\ params' = p
         /\ otp' = OcraSuite_call(suite, key, p)
    /\ candidate' = PyNone
    /\ accepted' = ErrB("")
    /\ UNCHANGED <<svars, suite, key, tvars, dvars, xvars>>

\* suite.accept(response, key, **params), with the arguments of the latest call
SuiteAccept ==
    /\ setup.proto = "suite"
    /\ otp # ErrS("")
    /\ \E response \in Candidates(otp) :
         /\ candidate' = response
         /\ accepted' = OcraSuite_accept(suite, response, key, params)
    /\ UNCHANGED <<svars, suite, key, params, otp, tvars, dvars, xvars>>

Next ==
    \/ ServerComputeChallenge
    \/ ClientComputeResponse
    \/ ServerVerifyResponse
    \/ MutualClientComputeClientChallenge
    \/ MutualServerComputeServerResponse
    \/ MutualClientVerifyServerResponse
    \/ MutualClientComputeClientResponse
    \/ MutualServerVerifyClientResponse
    \/ SuiteCall
    \/ SuiteAccept

Spec == Init /\ [][Next]_vars

\* --------------------------------------------- the crypto function on digests
\* A digest of the size of algo whose last byte gives the offset off, whose
\* four bytes at that offset are word, and whose other bytes are 170.
DigestWith(algo, off, word) ==
    [i \in 1..digest_size(algo) |->
        IF i = digest_size(algo) THEN 160 + off
        ELSE IF i \in (off + 1)..(off + 4) THEN word[i - off]
        ELSE 170]

\* Four bytes at the offset: values of one to ten decimal digits, with and
\* without bit 31 set.
Words ==
    { <<0, 0, 0, 0>>, <<0, 0, 0, 5>>, <<0, 1, 226, 64>>, <<5, 245, 225, 0>>,
      <<59, 154, 202, 0>>, <<127, 255, 255, 255>>, <<128, 0, 0, 7>>,
      <<255, 255, 255, 255>> }
Offsets == {0, 9, 15}
Digests ==
    {DigestWith(algo, off, word) : algo \in {<<"s","h","a","1">>, <<"s","h","a","5","1","2">>}, off \in Offsets, word \in Words}
TruncationLengths == 0..10

InitDec ==
    /\ setup = Setup("dec", <<>>, <<>>, PyNone, <<>>, <<>>, PyNone)
    /\ SInit /\ PInit /\ DInit /\ XInit
    /\ digest = <<>> /\ digits \in TruncationLengths /\ token = ErrS("")

\* The truncation of CryptoFunction.__call__ on a digest
Truncate ==
    /\ \E h \in Digests :
         /\ digest' = h
         /\ token' = CryptoFunction_truncate(CryptoFunction(<<"s","h","a","1">>, digits), h)
    /\ UNCHANGED <<svars, pvars, digits, dvars, xvars>>

\* CryptoFunction.__call__(key, data_input), the digest being that of hmac
CallCryptoFunction ==
    /\ \E k \in {Key1, Key2}, data_input \in {<<>>, <<1, 2, 3>>, Encode(SuiteN) \o <<0>>},
          algo \in {<<"s","h","a","1">>, <<"s","h","a","2","5","6">>} :
         /\ digest' = hmac_digest(k, data_input, algo)
         /\ token' = CryptoFunction_call(CryptoFunction(algo, digits), k, data_input)
    /\ UNCHANGED <<svars, pvars, digits, dvars, xvars>>

NextDec == Truncate \/ CallCryptoFunction

SpecDec == InitDec /\ [][NextDec]_vars

\* The number a string of decimal digits denotes, and the powers of ten.
RECURSIVE Pow10(_)
Pow10(n) == IF n = 0 THEN 1 ELSE 10 * Pow10(n - 1)

\* What C9 says of a token made of the 31-bit value v with p digits.
DecimalOfLength(t, v, p) ==
    /\ isdigit(t)
    /\ p > 0 => Len(t) = p
    /\ p \in 1..9 => DigitsValue(t, 1, 0) = v % Pow10(p)
    /\ p = 10 => DigitsValue(t, 1, 0) = v
    /\ p = 0 => (DigitsValue(t, 1, 0) = v /\ (Len(t) = 1 \/ t[1] # "0"))

\* C9: for a truncation length of 1..10 the crypto function returns exactly
\* that many characters: the last decimal digits of the truncated value,
\* padded with '0' on the left; for the length 0 it returns the decimal string
\* of the truncated value, without padding.
C9_TokenLength ==
    digest # <<>> =>
        (token.ok /\ DecimalOfLength(token.v, truncated_value(digest).v, digits))

C9_Witness ==
    /\ digits = 8 /\ token = OkS(<<"0","0","0","0","0","0","0","5">>) /\ truncated_value(digest) = OkN(5)

\* --------------------------------------------------- descriptors and sessions
Hashes == {<<"S","H","A","1">>, <<"s","h","a","2","5","6">>, <<"M","D","4">>}
Truncations == {<<"0">>, <<"6">>, <<"1","0">>, <<"1","1">>}
DataInputs ==
    { <<"Q","N","0","8">>, <<"C","-","Q","N","0","8">>, <<"Q","A","1","0","-","P","S","H","A","1">>, <<"Q","H","6","4","-","T","1","M">>, <<"C","-","Q","N","0","8","-","P","S","H","A","2","5","6","-","S","0","6","4","-","T","3","0","S">>,
      <<"C">>, <<"S","0","6","4">>, <<"T","1","H">>, <<"P","S","H","A","1">>, <<"C","-","T","1","5","S">>, <<"Q","N","0","3">>, <<"Q","X","0","8">>, <<>> }
Descriptors ==
    {<<"O","C","R","A","-","1",":","H","O","T","P","-">> \o h \o <<"-">> \o n \o <<":">> \o d :
        h \in Hashes, n \in Truncations, d \in DataInputs}
    \cup {<<"O","C","R","A","-","2",":","H","O","T","P","-","S","H","A","1","-","6",":","Q","N","0","8">>, <<"O","C","R","A","-","1",":","H","O","T","P","-","S","H","A","1","-","6">>, <<"O","C","R","A","-","1",":","T","O","T","P","-","S","H","A","1","-","6",":","Q","N","0","8">>}

Classes ==
    {"OCRAChallengeResponseServer", "OCRAChallengeResponseClient",
     "OCRAMutualChallengeResponseClient", "OCRAMutualChallengeResponseServer"}
Remotes == {PyNone, PyStr(<<"O","C","R","A","-","1",":","H","O","T","P","-","S","H","A","1","-","6",":","Q","N","0","8">>), PyStr(<<"O","C","R","A","-","1",":","H","O","T","P","-","S","H","A","1","-","6",":","C">>)}

InitParse ==
    /\ setup = Setup("parse", <<>>, <<>>, PyNone, <<>>, <<>>, PyNone)
    /\ SInit /\ PInit /\ TInit /\ XInit
    /\ descr \in Descriptors
    /\ parsed = SuiteErr("") /\ shown = <<>> /\ reparsed = SuiteErr("")
    /\ built = [cls |-> "", remote |-> PyNone, ok |-> FALSE, exc |-> ""]

\* str2ocrasuite(descr)
Parse ==
    /\ parsed = SuiteErr("")
    /\ parsed' = str2ocrasuite(descr)
    /\ UNCHANGED <<svars, pvars, tvars, descr, shown, reparsed, built, xvars>>

\* str(suite) for the suite parsed
Show ==
    /\ parsed.ok /\ shown = <<>>
    /\ shown' = OcraSuite_str(parsed.v)
    /\ UNCHANGED <<svars, pvars, tvars, descr, parsed, reparsed, built, xvars>>

\* str2ocrasuite(str(suite))
Reparse ==
    /\ shown # <<>> /\ reparsed = SuiteErr("")
    /\ reparsed' = str2ocrasuite(shown)
    /\ UNCHANGED <<svars, pvars, tvars, descr, parsed, shown, built, xvars>>

\* cls(key, descr, remote), once for a descriptor: the four classes share
\* OCRAChallengeResponse.__init__
Constructed(cls, remote, session) ==
    built' = [cls |-> cls, remote |-> remote, ok |-> session.ok, exc |-> session.exc]

Construct ==
    /\ built.cls = ""
    /\ \E cls \in Classes, remote \in Remotes :
         Constructed(cls, remote, OCRAChallengeResponse(Key1, descr, remote))
    /\ UNCHANGED <<svars, pvars, tvars, descr, parsed, shown, reparsed, xvars>>

NextParse == Parse \/ Show \/ Reparse \/ Construct

SpecParse == InitParse /\ [][NextParse]_vars

\* C6: a descriptor whose data input has no Q is accepted by str2ocrasuite,
\* and the constructor of each of the four session classes raises for it.
C6_NoQNoSession ==
    (parsed.ok /\ parsed.v.data_input.Q = NoQ /\ built.cls # "")
        => (~built.ok /\ built.exc = "ValueError")

C6_Witness ==
    /\ parsed.ok /\ parsed.v.data_input.Q = NoQ
    /\ built.cls = "OCRAMutualChallengeResponseServer" /\ ~built.ok
    /\ built.remote # PyNone
    /\ descr = <<"O","C","R","A","-","1",":","H","O","T","P","-","S","H","A","1","-","6",":","C","-","T","1","5","S">>

SameSemantics(a, b) ==
    /\ a.crypto_function = b.crypto_function
    /\ a.data_input = b.data_input

\* C10: for a valid descriptor, the string of the parsed suite parses again,
\* to a suite of the same hash algorithm, truncation length and data input.
C10_RoundTrip ==
    reparsed # SuiteErr("") => (reparsed.ok /\ SameSemantics(reparsed.v, parsed.v))

\* What str2ocrasuite does keep: the descriptor itself, which parses again to
\* the same suite.
C10_DescriptionRoundTrip ==
    parsed.ok => str2ocrasuite(parsed.v.ocrasuite_description) = parsed

\* ------------------------------------------------- properties of the sessions
\* The state a method acts in, per class.
OwnState(op) ==
    CASE op = "compute_challenge" -> SERVER_STATE_COMPUTE_CHALLENGE
      [] op = "verify_response" -> SERVER_STATE_VERIFY_RESPONSE
      [] op = "compute_client_challenge" -> CLIENT_STATE_COMPUTE_CLIENT_CHALLENGE
      [] op = "verify_server_response" -> CLIENT_STATE_VERIFY_SERVER_RESPONSE
      [] op = "compute_client_response" -> CLIENT_STATE_COMPUTE_CLIENT_RESPONSE
      [] op = "compute_server_response" -> SERVER_STATE_COMPUTE_SERVER_RESPONSE
      [] op = "verify_client_response" -> SERVER_STATE_VERIFY_CLIENT_RESPONSE
      [] OTHER -> 0

\* The session the latest call was made on.
Callee ==
    CASE last.op \in {"compute_challenge", "verify_response"} -> server
      [] last.op \in {"compute_client_challenge", "verify_server_response",
                      "compute_client_response"} -> mclient
      [] last.op \in {"compute_server_response", "verify_client_response"} -> mserver
      [] OTHER -> client

Stateful == last.op \notin {"", "compute_response"}

\* C1: a transition method called while its session is in another state raises
\* StateException to the caller and leaves the session's state as it was.
C1_OutOfOrderRaises ==
    (Stateful /\ last.pre # OwnState(last.op))
        => (last.ret = Raise("StateException") /\ Callee.state = last.pre)

\* The part of C1 the code keeps: the state is left as it was.
C1_OutOfOrderKeepsState ==
    (Stateful /\ last.pre # OwnState(last.op)) => Callee.state = last.pre

\* Same key, and each side's remote suite, when given, is the other's suite.
Matching ==
    /\ setup.ckey = setup.skey
    /\ \/ setup.cremote = PyNone /\ setup.sremote = PyNone /\ setup.cdesc = setup.sdesc
       \/ setup.cremote = PyStr(setup.sdesc) /\ setup.sremote = PyStr(setup.cdesc)

Succeeded(ret) == ret.kind = "return" /\ ret.t \in {"str", "tuple", "bool"} /\ (ret.t = "bool" => ret.b)

\* C2: with one key and matching suites, each call of the sequence
\* compute_client_challenge, compute_server_response, verify_server_response,
\* compute_client_response, verify_client_response succeeds for the challenges
\* the Q specification admits: the verifications return True and the sessions
\* end in CLIENT_STATE_FINISHED and SERVER_STATE_FINISHED.
C2_MutualEndToEnd ==
    (setup.proto = "mutual" /\ Matching /\ run > 0)
        => /\ Succeeded(last.ret)
           /\ mclient.state = (CASE run = 1 -> 2 [] run = 2 -> 2 [] run = 3 -> 3 [] OTHER -> 4)
           /\ mserver.state = (CASE run = 1 -> 1 [] run = 5 -> 3 [] OTHER -> 2)

\* The hexadecimal digits the two challenges of the exchange hold together.
EvenHexChallenges ==
    RemoteOrOwn(mclient).data_input.Q.kind = "H"
        => (mclient.client_challenge.t = "str" /\ mserver.server_challenge.t = "str"
            => (Len(mclient.client_challenge.s) + Len(mserver.server_challenge.s)) % 2 = 0)

\* C2 where it holds: the exchange succeeds unless the two hexadecimal
\* challenges together have an odd number of digits.
C2_MutualEndToEndEvenHex ==
    (setup.proto = "mutual" /\ Matching /\ run > 0 /\ EvenHexChallenges)
        => /\ Succeeded(last.ret)
           /\ mclient.state = (CASE run = 1 -> 2 [] run = 2 -> 2 [] run = 3 -> 3 [] OTHER -> 4)
           /\ mserver.state = (CASE run = 1 -> 1 [] run = 5 -> 3 [] OTHER -> 2)

\* The OTP verify_response compares the response with.
ExpectedResponse(self, kwargs) ==
    OcraSuite_call(RemoteOrOwn(self), self.key, [kwargs EXCEPT !.Q = self.challenge])

\* The OTP the verification of the latest call compares the response with.
ExpectedOf(self, kwargs, q) ==
    IF ~q.ok THEN q
    ELSE OcraSuite_call(RemoteOrOwn(self), self.key, [kwargs EXCEPT !.Qsc = PyStr(q.v)])

Expected(self, kwargs) ==
    IF last.op = "verify_response" THEN ExpectedResponse(self, kwargs)
    ELSE ExpectedOf(self, kwargs,
                    IF last.op = "verify_server_response"
                    THEN Concat(self.client_challenge, self.server_challenge)
                    ELSE Concat(self.server_challenge, self.client_challenge))

\* What C3 says of one verify_response call, server being the session before
\* the call, after the session after it, and e the OTP it computes.
RetryOrFinish(before, after, call, e) ==
    e.ok =>
        /\ after.state = SERVER_STATE_FINISHED <=> call.arg.s = e.v
        /\ call.arg.s # e.v =>
              call.ret = RetBool(FALSE) /\ after.state = SERVER_STATE_VERIFY_RESPONSE
        /\ after.challenge = before.challenge

\* C3: after compute_challenge, verify_response(candidate) finishes the
\* session exactly when the candidate equals the OTP of the stored challenge;
\* otherwise it returns False, the state stays SERVER_STATE_VERIFY_RESPONSE and
\* the stored challenge stays, so that the call can be made again.
C3_VerifyResponseRetry ==
    [][(setup.proto = "oneway" /\ last'.op = "verify_response"
        /\ server.state = SERVER_STATE_VERIFY_RESPONSE /\ last'.arg.t = "str")
           => RetryOrFinish(server, server', last', ExpectedResponse(server, last'.kwargs))]_vars

C3_Witness ==
    /\ last.op = "verify_response" /\ last.pre = SERVER_STATE_VERIFY_RESPONSE
    /\ last.ret = RetBool(FALSE) /\ last.arg.t = "str"
    /\ server.state = SERVER_STATE_VERIFY_RESPONSE /\ run = -1
    /\ Expected(server, last.kwargs).ok

\* What C4 says of the state of one session over one step.
InOrder(before, after, ops) ==
    /\ after.state \in {before.state, before.state + 1}
    /\ after.state # before.state =>
          last'.op \in ops /\ OwnState(last'.op) = before.state

\* C4: the state of a session never decreases, and it moves by one, by the
\* method of the state it is in: the states are passed in the order 1, 2, 3 (, 4).
C4_StatesInOrder ==
    [][/\ InOrder(server, server', {"compute_challenge", "verify_response"})
       /\ InOrder(mclient, mclient', {"compute_client_challenge", "verify_server_response",
                                      "compute_client_response"})
       /\ InOrder(mserver, mserver', {"compute_server_response", "verify_client_response"})
       /\ client'.state = client.state]_vars

C4_Witness ==
    /\ mclient.state = CLIENT_STATE_FINISHED /\ mserver.state = MUTUAL_SERVER_STATE_FINISHED
    /\ run = -1

\* C5: compute_client_response gives the client's OTP and finishes the session
\* only where verify_server_response has returned True; elsewhere it gives no
\* OTP and leaves the state.
C5_ResponseOnlyAfterVerification ==
    /\ (mclient.state = CLIENT_STATE_FINISHED \/ wire.rc # PyNone) => verified
    /\ (last.op = "compute_client_response" /\ ~verified)
           => (~(last.ret.kind = "return" /\ last.ret.t = "str")
               /\ mclient.state = last.pre)

C5_Witness ==
    /\ last.op = "compute_client_response" /\ last.ret.kind = "return" /\ last.ret.t = "str"
    /\ verified /\ mclient.state = CLIENT_STATE_FINISHED

\* C7: where suite(key, **params) succeeds, suite.accept of its result with the
\* same key and parameters returns True.
C7_AcceptsOwnOtp ==
    (otp.ok /\ candidate = PyStr(otp.v)) => accepted = OkB(TRUE)

C7_Witness ==
    /\ otp.ok /\ candidate = PyStr(otp.v) /\ accepted = OkB(TRUE)
    /\ suite.data_input.C > 0 /\ suite.data_input.P # <<>>

Verifying ==
    /\ last.op \in {"verify_response", "verify_server_response", "verify_client_response"}
    /\ last.pre = OwnState(last.op)
    /\ last.arg.t = "str"

\* What C8 says of a verification whose OTP is e.
TrueIffEqual(e, response, ret) ==
    e.ok => IF response = e.v THEN ret = RetBool(TRUE) ELSE ret = RetBool(FALSE)

\* C8: a candidate that differs from the computed OTP, in length or in
\* characters, makes OcraSuite.accept and the verify methods of the sessions
\* return False, not raise; they return True exactly for the OTP itself.
C8_MismatchIsFalse ==
    /\ (otp.ok /\ candidate # PyNone)
           => (accepted.ok /\ (accepted.v <=> str(candidate) = otp.v))
    /\ Verifying => TrueIffEqual(Expected(Callee, last.kwargs), last.arg.s, last.ret)

C8_Witness ==
    /\ Verifying /\ last.ret = RetBool(FALSE)
    /\ Expected(Callee, last.kwargs).ok
    /\ Len(last.arg.s) < Len(Expected(Callee, last.kwargs).v)
    /\ last.op = "verify_client_response"

\* A call of a method that takes keyword arguments, made in the state of the
\* method, out of which an exception of the suite came.
ParameterError(call) ==
    /\ call.op \in {"verify_response", "compute_server_response", "verify_server_response",
                    "compute_client_response", "verify_client_response"}
    /\ call.pre = OwnState(call.op)
    /\ call.ret.kind = "raise"
    /\ call.ret.t # "StateException"

\* The challenges a caller can pass: the one it holds and those
\* compute_challenge draws for the suite.
ChallengesFor(held, Q) ==
    {held} \cup {PyStr(c.v) : c \in {d \in compute_challenge(Q) : d.ok}}

\* The method op called on the session after gives, for each of the arguments
\* a caller can pass, what it gives on the session before.
SameOnRetry(op, before, after) ==
    CASE op = "verify_response" ->
            \A r \in Responses(wire.resp), k \in Kwargs :
                Server_verify_response(after, r, k) = Server_verify_response(before, r, k)
      [] op = "compute_server_response" ->
            \A ch \in ChallengesFor(mclient.client_challenge, before.ocrasuite.data_input.Q),
               given \in GivenOrDrawn(before.ocrasuite.data_input.Q), k \in Kwargs :
                MutualServer_compute_server_response(after, ch, given.Q, given.c, k)
                    = MutualServer_compute_server_response(before, ch, given.Q, given.c, k)
      [] op = "verify_server_response" ->
            \A r \in Responses(wire.rs),
               ch \in ChallengesFor(wire.qs, RemoteOrOwn(before).data_input.Q), k \in Kwargs :
                MutualClient_verify_server_response(after, r, ch, k)
                    = MutualClient_verify_server_response(before, r, ch, k)
      [] op = "compute_client_response" ->
            \A k \in Kwargs :
                MutualClient_compute_client_response(after, k)
                    = MutualClient_compute_client_response(before, k)
      [] op = "verify_client_response" ->
            \A r \in Responses(wire.rc), k \in Kwargs :
                MutualServer_verify_client_response(after, r, k)
                    = MutualServer_verify_client_response(before, r, k)
      [] OTHER -> TRUE

\* A session whose attributes are all as before answers as before; one whose
\* stored challenges moved is compared call by call.
KeepsSession(op, before, after) ==
    after.state = before.state /\ (after = before \/ SameOnRetry(op, before, after))

\* C19: a call of a transition method that raises an error of its parameters
\* leaves the state of the session as it was, and the same method called again
\* gives, for every argument, what it would have given without the failed
\* call: with valid parameters it succeeds as it would have.
C19_ParameterErrorKeepsSession ==
    [][ParameterError(last') =>
          CASE last'.op = "verify_response" -> KeepsSession(last'.op, server, server')
            [] last'.op \in {"verify_server_response", "compute_client_response"} ->
                  KeepsSession(last'.op, mclient, mclient')
            [] OTHER -> KeepsSession(last'.op, mserver, mserver')]_vars

\* compute_server_response has raised ValueError, having stored the client's
\* challenge, and called again with a challenge the suite draws it succeeds.
C19_Witness ==
    /\ last.op = "compute_server_response" /\ ParameterError(last)
    /\ last.ret.t = "ValueError"
    /\ mserver.state = SERVER_STATE_COMPUTE_SERVER_RESPONSE
    /\ mserver.client_challenge # Unset
    /\ \E c \in compute_challenge(mserver.ocrasuite.data_input.Q), k \in Kwargs :
          Succeeded(MutualServer_compute_server_response(
                        mserver, mclient.client_challenge, PyNone, c, k).ret)

\* The OTP of a suite over the concatenation a + b of two stored challenges.
OtpOver(s, k, kwargs, a, b) == OcraSuite_call(s, k, [kwargs EXCEPT !.Qsc = PyStr(a.s \o b.s)])

\* The latest call, made in the state of its method, returned a bool.
Verified(op) ==
    last.op = op /\ last.pre = OwnState(op) /\ last.ret.kind = "return" /\ last.ret.t = "bool"

\* A verification answers whether the response is the OTP e.
Answers(e) == last.ret.b <=> (e.ok /\ last.arg = PyStr(e.v))

\* C21: in the mutual exchange the server's response is the OTP of the
\* server's own suite over client_challenge + server_challenge, and the client
\* verifies it over the same concatenation with its remote suite when it has
\* one, else its own; the client's response is the OTP of the client's own
\* suite over server_challenge + client_challenge, and the server verifies it
\* over that concatenation with its remote suite when it has one, else its own.
C21_ChallengeOrderAndSuite ==
    /\ (last.op = "compute_server_response" /\ Succeeded(last.ret)) =>
          /\ OkS(last.ret.s) = OtpOver(mserver.ocrasuite, mserver.key, PopPin(last.kwargs),
                                       mserver.client_challenge, mserver.server_challenge)
          /\ mserver.client_challenge = mclient.client_challenge
          /\ mserver.server_challenge = PyStr(last.ret.s2)
    /\ Verified("verify_server_response") =>
          Answers(OtpOver(RemoteOrOwn(mclient), mclient.key, last.kwargs,
                          mclient.client_challenge, mclient.server_challenge))
    /\ (last.op = "compute_client_response" /\ Succeeded(last.ret)) =>
          OkS(last.ret.s) = OtpOver(mclient.ocrasuite, mclient.key, last.kwargs,
                                    mclient.server_challenge, mclient.client_challenge)
    /\ Verified("verify_client_response") =>
          Answers(OtpOver(RemoteOrOwn(mserver), mserver.key, last.kwargs,
                          mserver.server_challenge, mserver.client_challenge))

\* The exchange of a client with a pin suite and a server without, each with
\* the other's suite as its remote suite, run to its end on two challenges
\* that differ.
C21_Witness ==
    /\ run = 5 /\ setup.cremote # PyNone /\ setup.cdesc # setup.sdesc
    /\ last.op = "verify_client_response" /\ last.ret = RetBool(TRUE)
    /\ mserver.client_challenge # mserver.server_challenge

\* What C23 says of one session over one step: finished before, it is the
\* same after, and a call of one of its methods gave no OTP and no True.
Absorbed(before, after, ops, finished) ==
    before.state = finished =>
        /\ after = before
        /\ last'.op \in ops => ~Succeeded(last'.ret)

ServerResponseRejected ==
    last'.op = "verify_server_response" /\ last'.ret = RetBool(FALSE)

\* C30 as stated: a call of verify_server_response that returns False leaves
\* the state, the client challenge and the server challenge of the mutual
\* client as they were.
C30_RejectKeepsWholeSession ==
    [][ServerResponseRejected => mclient' = mclient]_vars

\* C30: a call of verify_server_response that returns False leaves the state
\* and the client challenge of the mutual client as they were, and every
\* other field but server_challenge, which holds the challenge of the call.
C30_RejectKeepsStateAndClientChallenge ==
    [][ServerResponseRejected =>
          /\ mclient'.state = mclient.state
          /\ mclient'.client_challenge = mclient.client_challenge
          /\ mclient' = [mclient EXCEPT !.server_challenge = mclient'.server_challenge]
          /\ mclient'.server_challenge \in {wire.qs, PyStr(<<"0","0","0","0">>)}]_vars

\* verify_server_response returned False on a challenge that is not the one
\* of the server: the client waits for the response still and holds it.
C30_Witness ==
    /\ last.op = "verify_server_response" /\ last.ret = RetBool(FALSE)
    /\ last.pre = CLIENT_STATE_VERIFY_SERVER_RESPONSE
    /\ mclient.state = CLIENT_STATE_VERIFY_SERVER_RESPONSE
    /\ mclient.client_challenge.t = "str"
    /\ mclient.server_challenge = PyStr(<<"0","0","0","0">>)
    /\ wire.qs # PyStr(<<"0","0","0","0">>)


\* ------------------------------------------- DataInput: parsing and encoding
\* Data input descriptors: every field in the order C, Q, P, S, T and in the
\* reverse order, each kind of challenge, fields alone; and descriptors with
\* a repeated letter, an unknown letter, a token against its grammar, or an
\* empty token.
QN == <<"Q","N">> \o Q2(ChallengeLength)
QA == <<"Q","A">> \o Q2(ChallengeLength)
QH == <<"Q","H">> \o Q2(ChallengeLength)
WellFormed ==
    { <<"C","-">> \o QN \o <<"-","P","S","H","A","1","-","S","0","0","4","-","T","1","M">>, <<"T","1","M","-","S","0","0","4","-","P","S","H","A","2","5","6","-">> \o QA \o <<"-","C">>,
      QN, QA, QH, <<"C","-">> \o QH, <<"C">>, QA \o <<"-","S","0","0","4">>, <<"T","3","0","S","-">> \o QN,
      <<"P","S","H","A","1","-">> \o QH, <<"T","0","S","-">> \o QN, <<"S","0","0","0","-">> \o QN }
IllFormed ==
    { <<>>, <<"-","Q","N","0","8">>, <<"Q","N","0","8","-">>, <<"Q","N","0","8","-","-","T","1","M">>, <<"Q","N","0","8","-","Q","N","0","8">>, <<"C","-","Q","N","0","8","-","C">>, <<"P","S","H","A","1","-","P","S","H","A","2","5","6">>,
      <<"X","N","0","8">>, <<"Q","N","0","8","-","Z">>, <<"q","n","0","8">>, <<"Q","X","0","8">>, <<"Q","N","0","3">>, <<"Q","N","6","5">>, <<"Q","N","x","x">>, <<"P","S","H","A","3">>, <<"S","x","x">>,
      <<"T","1">>, <<"T","M">>, <<"T","1","X">> }

\* The values a caller passes for each keyword argument.
Nines(n) == Repeat("9", n)
Counters == {NoneInt, NatInt(0), NatInt(5), NegInt(1), Pow64Minus1, Pow64Plus(0), Pow64Plus(1)}
Challenges ==
    {PyNone, PyStr(<<"1","2","3","4">>), PyStr(<<"a","b","c","d">>), PyStr(<<"é","é","é","é">>), PyStr(Nines(ChallengeLength)),
     PyStr(Nines(ChallengeLength + 1))}
DoubleChallenges == {PyNone, PyStr(Nines(2 * ChallengeLength))}
Pins == {PyNone, PyStr(Pin)}
PinDigests == {PyNone, PyStr(Nines(20))}
Sessions == {PyNone, PyStr(<<"a","b","c","d">>), PyStr(<<"a","b","c">>), PyStr(<<"é","é","é","é">>)}
Times == {NoneInt, NatInt(120)}
TimeSteps == {NoneInt, NatInt(2), NotAnInt}

\* The keyword arguments of a call: a value, or None, for each field the
\* DataInput declares, and None for the others.
If(declared, values) == IF declared THEN values ELSE {CHOOSE v \in values : v.t = "none"}
EncodeParams(di) ==
    {[C |-> c, Q |-> q, P |-> pin, P_digest |-> pd, S |-> s, T |-> t, T_precomputed |-> tp,
      Qsc |-> qsc] :
        c \in If(di.C # -1, Counters), q \in If(di.Q # NoQ, Challenges),
        qsc \in If(di.Q # NoQ, DoubleChallenges), pin \in If(di.P # <<>>, Pins),
        pd \in If(di.P # <<>>, PinDigests), s \in If(di.S # -1, Sessions),
        t \in If(di.T # -1, Times), tp \in If(di.T # -1, TimeSteps)}

InitEncode ==
    /\ setup = Setup("encode", <<>>, <<>>, PyNone, <<>>, <<>>, PyNone)
    /\ SInit /\ PInit /\ TInit /\ DInit /\ HInit /\ GInit
    /\ enc \in {[EInit_enc EXCEPT !.descr = d] : d \in WellFormed \cup IllFormed}

\* str2datainput(descr)
ParseDataInput ==
    /\ enc.di = DIErr("")
    /\ enc' = [enc EXCEPT !.di = str2datainput(enc.descr)]
    /\ UNCHANGED <<svars, pvars, tvars, dvars, hcall, ga>>

\* data_input(**p), data_input being the DataInput parsed, which a call leaves
\* as it is: one call for each DataInput
CallDataInput ==
    /\ enc.di.ok /\ ~enc.called
    /\ \E p \in EncodeParams(enc.di.v) :
         enc' = [enc EXCEPT !.called = TRUE, !.p = p, !.out = DataInput_call(enc.di.v, p)]
    /\ UNCHANGED <<svars, pvars, tvars, dvars, hcall, ga>>

NextEncode == ParseDataInput \/ CallDataInput

SpecEncode == InitEncode /\ [][NextEncode]_vars

\* 0 <= i < 2^64
IsUint64(i) == i.t = "int" /\ ~IsNegative(i) /\ i.mag[1] = 0
BigEndian64(i) == SubSeq(i.mag, 2, 9)

\* The arguments but the counter are good for the DataInput.
Declares(letter) == AlreadyPresent(letter, enc.di.v)
Encodes == enc.di.ok /\ enc.called

\* C11: when the suite declares C, a counter that is an integer in [0, 2^64)
\* is encoded as its 8 bytes, big-endian, at the head of the buffer, and every
\* other counter (negative, 2^64 and above) is rejected with ValueError.
C11_CounterRange ==
    (Encodes /\ Declares("C") /\ enc.p.C.t = "int") =>
        IF IsUint64(enc.p.C)
        THEN enc.out.ok => Slice(enc.out.v, 0, 8) = BigEndian64(enc.p.C)
        ELSE ~enc.out.ok /\ enc.out.exc = "ValueError"

\* The call supplies a value for the field of the letter.
Supplied(letter) ==
    \/ letter = "C" /\ enc.p.C.t # "none"
    \/ letter = "Q" /\ (enc.p.Q.t # "none" \/ enc.p.Qsc.t # "none")
    \/ letter = "P" /\ (enc.p.P.t # "none" \/ enc.p.P_digest.t # "none")
    \/ letter = "S" /\ enc.p.S.t # "none"
    \/ letter = "T" /\ (enc.p.T.t # "none" \/ enc.p.T_precomputed.t # "none")
Letters == {"C", "Q", "P", "S", "T"}

\* C12: a call that supplies no value for a field the DataInput declares (the
\* values it does supply being a counter in range and no pin digest) fails
\* with ValueError and returns no buffer.
C12_MissingFieldRaises ==
    (/\ Encodes
     /\ \E l \in Letters : Declares(l) /\ ~Supplied(l)
     /\ enc.p.C.t = "none" \/ IsUint64(enc.p.C)
     /\ enc.p.P_digest.t = "none")
        => (~enc.out.ok /\ enc.out.exc = "ValueError" /\ enc.out.v = <<>>)

\* The size of each field of the buffer, and where it starts when the fields
\* come in the order C, Q, P, S, T.
FieldSize(letter) ==
    IF ~Declares(letter) THEN 0
    ELSE IF letter = "C" THEN 8
    ELSE IF letter = "Q" THEN 128
    ELSE IF letter = "P" THEN digest_size(enc.di.v.P)
    ELSE IF letter = "S" THEN enc.di.v.S
    ELSE 8
OffsetQ == FieldSize("C")
OffsetP == OffsetQ + FieldSize("Q")
OffsetS == OffsetP + FieldSize("P")
OffsetT == OffsetS + FieldSize("S")
Field(start, letter) == Slice(enc.out.v, start, start + FieldSize(letter))

\* The challenge the call encodes.
GivenChallenge == IF enc.p.Qsc.t # "none" THEN enc.p.Qsc ELSE enc.p.Q

\* C13: the buffer is the fields the DataInput declares, one after the other
\* in the order C, Q, P, S, T whatever the order of the descriptor, and
\* nothing else: the counter in 8 bytes, the challenge in 128, the digest of
\* the pin, the session of the declared length, the time step in 8 bytes.
C13_FixedOrder ==
    (Encodes /\ enc.out.ok) =>
        /\ Len(enc.out.v) = OffsetT + FieldSize("T")
        /\ Declares("C") => Field(0, "C") = BigEndian64(enc.p.C)
        /\ (Declares("Q") /\ enc.di.v.Q.kind = "A")
              => Slice(Field(OffsetQ, "Q"), 0, Len(GivenChallenge.s)) = Encode(GivenChallenge.s)
        /\ Declares("P") => Field(OffsetP, "P") = hash_digest(enc.di.v.P, Encode(enc.p.P.s))
        /\ Declares("S") => Field(OffsetS, "S") = Encode(enc.p.S.s)
        /\ (Declares("T") /\ enc.p.T_precomputed.t = "int")
              => Field(OffsetT, "T") = BigEndian64(enc.p.T_precomputed)

\* The encoding of a challenge of each kind: the bytes of the hexadecimal
\* digits of the number (N), the characters (A), the bytes the hexadecimal
\* digits denote (H).
ChallengeBytes(kind, Q) ==
    IF kind = "N" THEN fromhex(EvenHex(FormatHex(Q))).v
    ELSE IF kind = "A" THEN tobytes(Q)
    ELSE fromhex(Q).v
ZeroPadded(field, data) ==
    /\ Len(field) = 128
    /\ Len(data) <= 128
    /\ field = data \o [i \in 1..(128 - Len(data)) |-> 0]

\* C14: for a DataInput whose last field is Q, the Q field of every buffer is
\* 128 bytes: the encoding of the challenge, then zero bytes only.
C14_ChallengePadded ==
    (/\ Encodes /\ enc.out.ok /\ Declares("Q")
     /\ ~Declares("P") /\ ~Declares("S") /\ ~Declares("T"))
        => ZeroPadded(Drop(enc.out.v, OffsetQ),
                      ChallengeBytes(enc.di.v.Q.kind, GivenChallenge.s))

\* C15: str2datainput raises ValueError, and gives no DataInput, for every
\* descriptor with a repeated letter, an unknown letter, a token against its
\* grammar or an empty token.
Parsed == enc.di # DIErr("")
C15_IllFormedRejected ==
    (Parsed /\ enc.descr \in IllFormed) => (~enc.di.ok /\ enc.di.exc = "ValueError")

\* The descriptor names the letter: one of its elements starts with it.
Named(letter) == \E i \in 1..Len(split(enc.descr, "-")) : split(enc.descr, "-")[i][1] = letter

\* The size of the field of a letter the descriptor names.
NamedSize(letter) ==
    IF ~Named(letter) THEN 0
    ELSE IF letter = "C" THEN 8
    ELSE IF letter = "Q" THEN 128
    ELSE IF letter = "P" THEN digest_size(enc.di.v.P)
    ELSE IF letter = "S" THEN enc.di.v.S
    ELSE 8

\* C26: for a descriptor that parses, every letter it names is required by a
\* call (a call that gives no value for it fails) and is encoded by every
\* call that succeeds (the buffer holds a field for it), whatever the value
\* of its element: a session length or a time step of 0 does not make the
\* field absent.
C26_NamedFieldsEncoded ==
    Encodes =>
        /\ \A l \in Letters : (Named(l) /\ ~Supplied(l)) => ~enc.out.ok
        /\ enc.out.ok =>
              Len(enc.out.v) >= NamedSize("C") + NamedSize("Q") + NamedSize("P")
                                  + NamedSize("S") + NamedSize("T")


\* ------------------------------------------------- accept_hotp, accept_totp
\* A server that validates the responses of one token, of HOTP or of TOTP: it
\* stores the counter accept_hotp returns, or the drift accept_totp returns,
\* and passes it to the next call.  Counters up to MaxCounter and windows up to MaxDrift.
MaxCounter == 2
MaxDrift == 2
HexKeys == {<<"3","1","3","2","3","3","3","4","3","5","3","6","3","7","3","8","3","9","3","0","3","1","3","2","3","3","3","4","3","5","3","6","3","7","3","8","3","9","3","0">>}
Formats == {"dec6", "hex"}
Period == 30
Clock == {0, 20, 65}

\* The responses presented: the values of the token for the counters (or time
\* steps) the windows reach, as a str and as bytes, and a value of no counter.
TokenValue(c) == hotp(hcall.key, IntOf(c), hcall.format, hcall.hash).v
PresentedResponses ==
    {TokenValue(c) : c \in 0..(MaxCounter + MaxDrift)}
    \cup {PyBytes(TokenValue(0).s), PyStr(<<"z","z","z","z","z","z">>)}

InitHotp ==
    /\ setup = Setup("hotp", <<>>, <<>>, PyNone, <<>>, <<>>, PyNone)
    /\ SInit /\ PInit /\ TInit /\ DInit /\ EInit /\ GInit
    /\ hcall \in {[HInit_hcall EXCEPT !.key = k, !.format = f, !.hash = <<"s","h","a","1">>, !.fn = fn] :
                    k \in HexKeys, f \in Formats, fn \in {"accept_hotp", "accept_totp"}}

\* The server keeps the second value of the pair returned.
Accepted(response, args, ret) ==
    hcall' = [hcall EXCEPT !.called = TRUE, !.response = response, !.args = args, !.ret = ret,
                           !.counter = IF hcall.fn = "accept_hotp" /\ ret.ok THEN ret.v[2] ELSE @,
                           !.drift = IF hcall.fn = "accept_totp" /\ ret.ok THEN ret.v[2] ELSE @]

\* accept_hotp(key, response, counter, format, hash, drift, backward_drift)
AcceptHotp ==
    /\ hcall.fn = "accept_hotp" /\ hcall.counter <= MaxCounter
    /\ \E response \in PresentedResponses, drift \in 0..MaxDrift, backward_drift \in 0..MaxDrift :
         Accepted(response,
                  AcceptArgs(hcall.counter, drift, backward_drift, 0, 0, 0),
                  accept_hotp(hcall.key, response, hcall.counter, hcall.format, hcall.hash,
                              drift, backward_drift))
    /\ UNCHANGED <<svars, pvars, tvars, dvars, enc, ga>>

\* accept_totp(key, response, format, period, t, hash, forward_drift,
\* backward_drift, drift)
AcceptTotp ==
    /\ hcall.fn = "accept_totp" /\ hcall.drift \in (0 - MaxDrift)..MaxDrift
    /\ \E response \in PresentedResponses, t \in Clock, forward_drift \in 0..1,
          backward_drift \in 0..1 :
         Accepted(response,
                  AcceptArgs(0, hcall.drift, backward_drift, forward_drift, Period, t),
                  accept_totp(hcall.key, response, hcall.format, Period, t, hcall.hash,
                              forward_drift, backward_drift, hcall.drift))
    /\ UNCHANGED <<svars, pvars, tvars, dvars, enc, ga>>

NextHotp == AcceptHotp \/ AcceptTotp

SpecHotp == InitHotp /\ [][NextHotp]_vars

\* The counters (or time steps) of a window whose value equals the response.
Lowest(S) == CHOOSE c \in S : \A d \in S : c <= d
ValueEquals(c, response) ==
    c >= 0 /\ hotp(hcall.key, IntOf(c), hcall.format, hcall.hash) = OkV(response)
MatchingIn(window, response) == {c \in window : ValueEquals(c, response)}

\* What accept_hotp returns when the counters of the set matching are those of
\* the window whose HOTP value equals the response.
LowestNext(matching, counter) ==
    IF matching # {} THEN OkA(TRUE, Lowest(matching) + 1) ELSE OkA(FALSE, counter)

\* C16: accept_hotp returns (True, c + 1), c being the lowest counter of
\* counter - backward_drift .. counter + drift whose HOTP value equals the
\* response, and (False, counter) when there is none.
C16_AcceptHotpWindow ==
    (hcall.fn = "accept_hotp" /\ hcall.called) =>
        hcall.ret = LowestNext(MatchingIn((hcall.args.counter - hcall.args.backward_drift)
                                              ..(hcall.args.counter + hcall.args.drift),
                                          PyStr(str(hcall.response))),
                               hcall.args.counter)

\* The time steps of the window of a call of accept_totp.
CurrentStep == hcall.args.t \div hcall.args.period
StepWindow ==
    (CurrentStep + hcall.args.drift - hcall.args.backward_drift)
        ..(CurrentStep + hcall.args.drift + hcall.args.forward_drift)

\* What accept_totp returns for the steps matching of the window.
FirstDrift(ret, matching) ==
    /\ ret.ok
    /\ ret.v[1] <=> matching # {}
    /\ ret.v[1] => ret.v[2] = Lowest(matching) - CurrentStep

\* C17: for a response that is a str, accept_totp returns True exactly when
\* the response equals the TOTP of a time step between drift - backward_drift
\* and drift + forward_drift from the current step, with the drift of the
\* first such step, and False when there is none.
C17_AcceptTotpWindow ==
    (hcall.fn = "accept_totp" /\ hcall.called /\ hcall.response.t = "str") =>
        FirstDrift(hcall.ret, MatchingIn(StepWindow, hcall.response))

\* The time steps accept_totp evaluates TOTP at: those of the window from the
\* first value of i, max(-(t // period), -backward_drift), on.
EvaluatedSteps ==
    {TruncDiv(hcall.args.t + (hcall.args.drift + i) * hcall.args.period, hcall.args.period) :
        i \in Max(0 - CurrentStep, 0 - hcall.args.backward_drift)..hcall.args.forward_drift}

\* C27: with the drift an earlier call returned, accept_totp evaluates TOTP at
\* time steps that are not negative only, and returns a pair (bool, drift): it
\* does not fail on the encoding of a negative counter.
C27_NoNegativeTimeStep ==
    (hcall.fn = "accept_totp" /\ hcall.called /\ hcall.response.t = "str") =>
        /\ \A step \in EvaluatedSteps : step >= 0
        /\ hcall.ret.ok

\* A call of accept_hotp with backward_drift = 0, and its window of counters.
ForwardOnly(call) == call.fn = "accept_hotp" /\ call.called /\ call.args.backward_drift = 0
CounterWindow(call) == call.args.counter..(call.args.counter + call.args.drift)
AcceptedBy(call) == call.ret.ok /\ call.ret.v[1]

\* The counter whose value a call accepted.
CounterAccepted(call) == call.ret.v[2] - 1

\* C28: a call of accept_hotp with backward_drift = 0 does not decrease the
\* stored counter and, when it accepts, sets it above the counter whose value
\* it accepted, which is in the window of the call; the counter a call with
\* backward_drift = 0 accepted is not in the window of the next such call.
C28_ForwardCounter ==
    [][(hcall' # hcall /\ ForwardOnly(hcall')) =>
          /\ hcall'.args.counter = hcall.counter
          /\ hcall'.counter >= hcall.counter
          /\ AcceptedBy(hcall') =>
                /\ CounterAccepted(hcall') \in CounterWindow(hcall')
                /\ ValueEquals(CounterAccepted(hcall'), PyStr(str(hcall'.response)))
                /\ hcall'.counter > CounterAccepted(hcall')
                /\ hcall'.counter > hcall.counter
          /\ (ForwardOnly(hcall) /\ AcceptedBy(hcall)) =>
                CounterAccepted(hcall) \notin CounterWindow(hcall')]_vars

\* A call with backward_drift = 0 accepted the value of a counter above the
\* stored one, after an earlier call had accepted.
C28_Witness ==
    /\ ForwardOnly(hcall) /\ AcceptedBy(hcall)
    /\ hcall.args.counter > 0
    /\ CounterAccepted(hcall) > hcall.args.counter
    /\ hcall.counter = CounterAccepted(hcall) + 1

\* With backward_drift > 0 a call accepts and returns a counter that is not
\* above the stored one.
BackwardAccepted ==
    /\ hcall.fn = "accept_hotp" /\ hcall.called /\ hcall.args.backward_drift > 0
    /\ AcceptedBy(hcall) /\ hcall.counter <= hcall.args.counter


\* ------------------------------------------------------ GoogleAuthenticator
\* Authenticators of both types built with the default state (None), as
\* tests/test_google_authenticator.py builds them, and one built on a state
\* that holds a counter.
Secrets == {<<"G","G">>, <<"g","e","z","d","g","n","b","v","g","y","3","t","q","o","j","q">>}
Uris ==
    {OtpauthUri(type, PyStr(secret), PyNone, d, PyNone, PyNone) :
        type \in {TOTP, HOTP}, secret \in Secrets, d \in {PyNone, PyStr(<<"8">>)}}
GivenStates == {EmptyDict, StateDict(TRUE, 1, FALSE, 0)}

\* The codes presented to accept: the code generate returned, the code of
\* the test, the codes of the next counter and of the time step before.
CodeOf(self, c) ==
    hotp(self.parsed_otpauth_uri.secret, IntOf(c), DecFormat(self.parsed_otpauth_uri.digits),
         self.parsed_otpauth_uri.algorithm).v
PresentedCodes ==
    (IF ga.generated.ok THEN {ga.generated.v} ELSE {})
    \cup {PyStr(<<"1","1","1","1","1","1">>), CodeOf(ga.self, 1), CodeOf(ga.self, 5)}

InitGA ==
    /\ setup = Setup("google_authenticator", <<>>, <<>>, PyNone, <<>>, <<>>, PyNone)
    /\ SInit /\ PInit /\ TInit /\ DInit /\ EInit /\ HInit
    /\ ga \in {[GInit_ga EXCEPT !.self = GoogleAuthenticator(uri, state)] :
                 uri \in Uris, state \in GivenStates}

\* gauth.generate(t)
Generated(r, t) ==
    ga' = [ga EXCEPT !.self = r.self, !.generated = r.ret, !.generated_at = t]
Generate ==
    /\ ga.self.ok
    /\ ga.self.generator_state.counter <= MaxCounter
    /\ \E t \in Clock : Generated(GoogleAuthenticator_generate(ga.self, t), t)
    /\ UNCHANGED <<svars, pvars, tvars, dvars, enc, hcall>>

\* gauth.accept(otp, t=t), the drifts being the defaults
AcceptedCode(r, code, t) ==
    ga' = [ga EXCEPT !.self = r.self, !.otp = code, !.at = t, !.ret = r.ret,
                     !.before = ga.self.acceptor_state]
Accept ==
    /\ ga.self.ok
    /\ ga.self.acceptor_state.counter <= MaxCounter
    /\ \E code \in PresentedCodes, t \in Clock :
         AcceptedCode(GoogleAuthenticator_accept(ga.self, code, 3, 0, 1, 1, t), code, t)
    /\ UNCHANGED <<svars, pvars, tvars, dvars, enc, hcall>>

NextGA == Generate \/ Accept

SpecGA == InitGA /\ [][NextGA]_vars

\* The codes of the acceptance window of the latest call of accept, made on
\* the default state: the counters from the counter of the URI to three
\* more, or the time steps one before to one after the current step.
WindowOf(p) ==
    IF p.type = HOTP THEN p.counter..(p.counter + 3)
    ELSE {s \in ((ga.at \div p.period) - 1)..((ga.at \div p.period) + 1) : s >= 0}
WindowCodes == {CodeOf(ga.self, c) : c \in WindowOf(ga.self.parsed_otpauth_uri)}

\* accept was called on the default state
AcceptedOnDefault == ga.ret # ErrB("") /\ ga.before = EmptyDict /\ ~ga.self.shared

\* C18: on an authenticator of type TOTP or HOTP with its default state,
\* accept of the code generate returned, at the same time, returns True, and
\* accept of a code that is none of the codes of the window returns False.
C18_GenerateAccept ==
    AcceptedOnDefault =>
        /\ (ga.generated.ok /\ ga.otp = ga.generated.v /\ ga.at = ga.generated_at)
              => ga.ret = OkB(TRUE)
        /\ ga.otp \notin WindowCodes => ga.ret = OkB(FALSE)

\* The counter and the drift an acceptor state stands for: those it holds,
\* or the ones accept starts from (the counter of the URI, the drift 0).
StoredCounter(state) ==
    IF state.has_counter THEN state.counter ELSE ga.self.parsed_otpauth_uri.counter
StoredDrift(state) == IF state.has_drift THEN state.drift ELSE 0

\* A step of accept that returned False: generate leaves ga.before alone.
RejectStep ==
    /\ ga' # ga /\ ga'.generated = ga.generated /\ ga'.generated_at = ga.generated_at
    /\ ga'.before = ga.self.acceptor_state
    /\ ga'.ret = OkB(FALSE)

\* C29: after accept returned False the acceptor state holds the HOTP counter
\* and the TOTP drift it held before the call.
C29_RejectKeepsAcceptorState ==
    [][RejectStep =>
          /\ ga.self.parsed_otpauth_uri.type = HOTP =>
                StoredCounter(ga'.self.acceptor_state) = StoredCounter(ga.self.acceptor_state)
          /\ ga.self.parsed_otpauth_uri.type = TOTP =>
                StoredDrift(ga'.self.acceptor_state) = StoredDrift(ga.self.acceptor_state)]_vars


\* ------------------------------------------------ truncated_value on digests
\* Digests of every length up to MaxDigestLen, and of the sizes of sha256 and
\* sha512: the last byte holds the offset in its low four bits, the four bytes
\* at the offset are word where they fit, the other bytes are 170.
MaxDigestLen == 21
DigestLengths == 0..MaxDigestLen \cup {32, 64}
DigestOf(len, high, off, word) ==
    [i \in 1..len |->
        IF i = len THEN 16 * high + off
        ELSE IF i \in (off + 1)..(off + 4) THEN word[i - off]
        ELSE 170]
AnyDigests ==
    {DigestOf(len, high, off, word) :
        len \in DigestLengths, high \in {0, 10}, off \in 0..15,
        word \in {<<0, 0, 0, 5>>, <<128, 0, 0, 7>>, <<255, 255, 255, 255>>}}

InitTrunc ==
    /\ setup = Setup("truncate", <<>>, <<>>, PyNone, <<>>, <<>>, PyNone)
    /\ SInit /\ PInit /\ DInit /\ XInit
    /\ digest = <<>> /\ digits = 0 /\ token = ErrS("")

\* str(truncated_value(h)), as CryptoFunction.__call__ returns it for the
\* truncation length 0: one call for each use
TruncatedValue ==
    /\ token = ErrS("")
    /\ \E h \in AnyDigests :
         /\ digest' = h
         /\ token' = StrOf(truncated_value(h))
    /\ UNCHANGED <<svars, pvars, digits, dvars, xvars>>

NextTrunc == TruncatedValue

SpecTrunc == InitTrunc /\ [][NextTrunc]_vars

\* truncated_value has been called on digest.
Truncated == token # ErrS("")

\* The low four bits of the last byte, and the four bytes of h from the
\* offset, read big-endian with bit 31 cleared.
OffsetOf(h) == h[Len(h)] % 16
WordAt(h, off) ==
    (h[off + 1] % 128) * 16777216 + h[off + 2] * 65536 + h[off + 3] * 256 + h[off + 4]

\* What C20 says of a digest truncate is defined for.
ReadsInside(h, t) ==
    /\ t.ok
    /\ OffsetOf(h) + 4 <= Len(h)
    /\ DigitsValue(t.v, 1, 0) = WordAt(h, OffsetOf(h))
    /\ DigitsValue(t.v, 1, 0) \in 0..2147483647

\* C20 as stated: truncate is defined for every digest of at least 20 bytes,
\* where it is the 4 bytes at the offset (last byte AND 0xF), big-endian, bit
\* 31 cleared, a value in [0, 2^31) read inside the digest; it fails for every
\* digest shorter than 20 bytes.
C20_FailsBelowTwentyBytes ==
    Truncated =>
        IF Len(digest) >= 20 THEN ReadsInside(digest, token) ELSE ~token.ok

\* C20: truncate is defined for every digest of at least 20 bytes, where it is
\* the 4 bytes at the offset (last byte AND 0xF), big-endian, bit 31 cleared,
\* a value in [0, 2^31) read inside the digest; on a digest shorter than 20
\* bytes it fails exactly when the digest is empty or ends before the offset
\* plus 4, and gives that same value otherwise.
C20_TruncateInsideDigest ==
    Truncated =>
        /\ Len(digest) >= 20 => ReadsInside(digest, token)
        /\ Len(digest) < 20 =>
              IF Len(digest) > 0 /\ OffsetOf(digest) + 4 <= Len(digest)
              THEN ReadsInside(digest, token)
              ELSE ~token.ok

\* A digest of 16 bytes whose offset is 12: the value is its last four bytes,
\* bit 31 cleared.
C20_Witness ==
    /\ Truncated /\ Len(digest) = 16 /\ OffsetOf(digest) = 12
    /\ token = OkS(<<"2","1","4","7","4","8","3","5","6","4">>)


\* ------------------------------------- compute_server_response and the pin
\* Mutual servers just constructed, with a suite of each kind of challenge
\* and a suite with a pin, and the keyword arguments of one call: the pin and
\* the digest of the pin, each given or not.
ServerSuites == {SuiteN, SuiteA, SuiteAP, SuiteH}
PinKwargs ==
    {[NoParams EXCEPT !.P = pin, !.P_digest = pd] :
        pin \in {PyNone, PyStr(Pin), PyStr(<<"0","0","0","0">>)}, pd \in PinDigests}

InitPin ==
    /\ setup \in {Setup("mutual", k, d, PyNone, k, d, PyNone) : k \in {Key1, Key2}, d \in ServerSuites}
    /\ SInit /\ PInit /\ TInit /\ DInit /\ XInit

\* mserver.compute_server_response(challenge, Qs, **kwargs) on the server
\* just constructed
FirstServerResponse ==
    /\ last.op = ""
    /\ \E challenge \in ChallengesFor(PyStr(<<"a","b","c">>), mserver.ocrasuite.data_input.Q),
          given \in GivenOrDrawn(mserver.ocrasuite.data_input.Q), kwargs \in PinKwargs :
         DoMutualServerComputeServerResponse(
             MutualServer_compute_server_response(mserver, challenge, given.Q, given.c, kwargs),
             kwargs, TRUE)

NextPin == FirstServerResponse

SpecPin == InitPin /\ [][NextPin]_vars

\* The server as its constructor left it.
FreshServer == OCRAChallengeResponse(setup.skey, setup.sdesc, setup.sremote).v

\* The latest call was compute_server_response on the fresh server with two
\* challenges the Q of the suite admits.
FirstCallAdmitted ==
    /\ last.op = "compute_server_response" /\ last.pre = SERVER_STATE_COMPUTE_SERVER_RESPONSE
    /\ Admits(mserver.ocrasuite.data_input.Q, mserver.client_challenge)
    /\ Admits(mserver.ocrasuite.data_input.Q, mserver.server_challenge)

\* The call made with the keyword arguments k instead.
WithPin(k) ==
    MutualServer_compute_server_response(FreshServer, mserver.client_challenge,
                                         mserver.server_challenge, ErrS(""), k)

\* C22: compute_server_response on a fresh session, with challenges the suite
\* admits, succeeds and leaves the session in
\* SERVER_STATE_VERIFY_CLIENT_RESPONSE whatever P and P_digest are, and every
\* other value of P and P_digest gives the same (response, server_challenge).
C22_ServerIgnoresPin ==
    FirstCallAdmitted =>
        /\ Succeeded(last.ret)
        /\ mserver.state = SERVER_STATE_VERIFY_CLIENT_RESPONSE
        /\ \A k \in PinKwargs : WithPin(k) = Effect(mserver, last.ret)


\* ------------------------------------------------------ one-way exchanges
\* A server and a client with one key and one suite: each kind of challenge,
\* an even and an odd length, and a suite with a pin.
InitOneWay ==
    /\ setup \in {Setup("oneway", k, d, PyNone, k, d, PyNone) :
                     k \in {Key1, Key2}, d \in {SuiteN, SuiteA, SuiteAP, SuiteH, SuiteH5}}
    /\ SInit /\ PInit /\ TInit /\ DInit /\ XInit

NextOneWay == ServerComputeChallenge \/ ClientComputeResponse \/ ServerVerifyResponse

SpecOneWay == InitOneWay /\ [][NextOneWay]_vars

\* The client as its constructor left it.
FreshClient == OCRAChallengeResponse(setup.ckey, setup.cdesc, setup.cremote).v

\* C24: with one key and one suite, compute_challenge, then compute_response
\* of that challenge, then verify_response of that response succeed for every
\* challenge the server draws: verify_response returns True and the server is
\* in SERVER_STATE_FINISHED; the client is as it was constructed, and
\* compute_response called again gives the response it gave.
C24_OneWayEndToEnd ==
    (setup.proto = "oneway" /\ Matching) =>
        /\ run > 0 => Succeeded(last.ret)
        /\ run = 3 => (last.ret = RetBool(TRUE) /\ server.state = SERVER_STATE_FINISHED)
        /\ client = FreshClient
        /\ run = 2 =>
              Client_compute_response(client, server.challenge, last.kwargs).ret
                  = RetStr(wire.resp.s)


\* ------------------------------------------- the challenges the code draws
\* The Q descriptors of each kind, of even and odd lengths up to 64.
DrawnLengths == {ChallengeLength, ChallengeLength + 1, 9, 32, 63, 64}
QDescriptors == {<<"Q", kind>> \o Q2(n) : kind \in {"N", "A", "H"}, n \in DrawnLengths}

InitChallenge ==
    /\ setup = Setup("challenge", <<>>, <<>>, PyNone, <<>>, <<>>, PyNone)
    /\ SInit /\ PInit /\ TInit /\ DInit /\ HInit /\ GInit
    /\ enc \in {[EInit_enc EXCEPT !.descr = d] : d \in QDescriptors}

\* compute_challenge(Q) for the Q of the DataInput: the challenges it can give.
Drawn(di) == {PyStr(c.v) : c \in {d \in compute_challenge(di.Q) : d.ok}}

\* The keyword arguments of a call that encodes challenges drawn for the Q
\* of the DataInput: one as Q, or two, one after the other, as Qsc.
DrawnParams(di) ==
    {[NoParams EXCEPT !.Q = q] : q \in Drawn(di)}
    \cup {[NoParams EXCEPT !.Qsc = PyStr(a.s \o b.s)] : a \in Drawn(di), b \in Drawn(di)}

\* data_input(Q=compute_challenge(Q)) and data_input(Qsc=...): one call for
\* each DataInput
EncodeDrawn ==
    /\ enc.di.ok /\ ~enc.called
    /\ \E p \in DrawnParams(enc.di.v) :
         enc' = [enc EXCEPT !.called = TRUE, !.p = p, !.out = DataInput_call(enc.di.v, p)]
    /\ UNCHANGED <<svars, pvars, tvars, dvars, hcall, ga>>

NextChallenge == ParseDataInput \/ EncodeDrawn

SpecChallenge == InitChallenge /\ [][NextChallenge]_vars

\* C25: a challenge compute_challenge draws for a Q that the parser accepts,
\* of kind N, A or H and of even or odd length, is encoded by the DataInput
\* of that Q without an exception, alone and as either half of a Qsc.
C25_DrawnChallengeEncodes ==
    (Encodes /\ enc.p \in DrawnParams(enc.di.v)) => enc.out.ok

====
